---- MODULE Spec2Model ----
(***************************************************************************)
(* State-machine model of the StarkNet SQL query sandbox.                  *)
(*                                                                         *)
(* Three entry points of the repository execute queries; the variable     *)
(* program says which one a behaviour drives:                              *)
(*   "server"  : SQLQueryEngine (sqlQueryEngine.ts) behind the express     *)
(*               routes of QueryExecutionRoutes, with the route-level      *)
(*               rate-limit middleware;                                    *)
(*   "sandbox" : QueryExecutionSandbox (querySandbox.ts) with QueryCache   *)
(*               (queryCache.ts) and StarkNetSQLParser (sqlParser.ts);     *)
(*   "service" : SQLSandboxService (sqlSandboxService.ts) on top of the    *)
(*               sandbox, the cache and QueryErrorHandler                  *)
(*               (errorHandler.ts).                                        *)
(* SpecText drives the two validateQuery functions over texts, SpecCache   *)
(* drives QueryCache alone, SpecRate the two rate limiters.                *)
(*                                                                         *)
(* Query texts are sequences of one-character strings, so that the         *)
(* string functions of the code (toUpperCase, trim, includes, the regular  *)
(* expressions, the tokenizer, parseInt, the hash) are computed as the     *)
(* code computes them.  Date.now() is the variable now, in milliseconds.   *)
(* A result set is the record [ver, n]: the first n rows of what the       *)
(* storage collaborator answered for the statement at its snapshot ver.    *)
(***************************************************************************)
EXTENDS Integers, Sequences, FiniteSets, TLC

VARIABLES
    now,              \* Date.now()
    ticks,            \* number of clock advances so far
    program,          \* the entry point exercised: "server" | "sandbox" | "service" | ...
    engineCache,      \* SQLQueryEngine.cache, a Map in insertion order
    cache,            \* QueryCache.cache, a Map in insertion order
    executionHistory, \* QueryExecutionSandbox.executionHistory
    resourceUsage,    \* QueryExecutionSandbox.resourceUsage
    config,           \* QueryExecutionSandbox.config
    stats,            \* SQLSandboxService.stats
    postgres,         \* SQLSandboxService.enabledFeatures.postgres
    rateLimitStore,   \* rateLimitStore of queryExecutionRoutes.ts
    calls,            \* the executeQuery calls made so far, finished or in flight
    last,             \* the most recent operation and what it returned
    text,             \* input of the text functions
    outcome,          \* what the text functions returned for text
    indexer,          \* the fields of StarkNetIndexer or StarkNetDataSync, their timers
                      \* and the startSync calls made so far
    ledger,           \* the tables of StarkNetDataSchema, what StarkNetDataSync handed to
                      \* its listeners, its status, and the last indexing operation
    errorLog          \* QueryErrorHandler.errorLog, and the number of errors logged so far

vars ==
    <<now, ticks, program, engineCache, cache, executionHistory, resourceUsage, config,
      stats, postgres, rateLimitStore, calls, last, text, outcome, indexer, ledger,
      errorLog>>

-----------------------------------------------------------------------------
(* Characters and the string functions of JavaScript used by the code.     *)

LowerCase ==
    <<"a", "b", "c", "d", "e", "f", "g", "h", "i", "j", "k", "l", "m", "n", "o", "p", "q",
      "r", "s", "t", "u", "v", "w", "x", "y", "z">>

UpperCase ==
    <<"A", "B", "C", "D", "E", "F", "G", "H", "I", "J", "K", "L", "M", "N", "O", "P", "Q",
      "R", "S", "T", "U", "V", "W", "X", "Y", "Z">>

DigitChars == <<"0", "1", "2", "3", "4", "5", "6", "7", "8", "9">>

Range(s) == {s[i] : i \in DOMAIN s}

IsLower(c) == c \in Range(LowerCase)

IsUpper(c) == c \in Range(UpperCase)

IsDigit(c) == c \in Range(DigitChars)

\* \s of a regular expression, and the characters trim() removes
IsSpace(c) == c \in {" ", "\n", "\t"}

\* \w of a regular expression
IsWordChar(c) == IsLower(c) \/ IsUpper(c) \/ IsDigit(c) \/ c = "_"

IndexIn(c, s) == CHOOSE i \in DOMAIN s : s[i] = c

toUpperCaseChar(c) == IF IsLower(c) THEN UpperCase[IndexIn(c, LowerCase)] ELSE c

toLowerCaseChar(c) == IF IsUpper(c) THEN LowerCase[IndexIn(c, UpperCase)] ELSE c

toUpperCase(s) == [i \in 1..Len(s) |-> toUpperCaseChar(s[i])]

toLowerCase(s) == [i \in 1..Len(s) |-> toLowerCaseChar(s[i])]

trim(s) ==
    LET keep == {i \in 1..Len(s) : ~IsSpace(s[i])}
    IN  IF keep = {} THEN <<>>
        ELSE SubSeq(s, CHOOSE i \in keep : \A j \in keep : i <= j,
                       CHOOSE i \in keep : \A j \in keep : j <= i)

StartsAt(s, i, k) == i >= 1 /\ i + Len(k) - 1 <= Len(s) /\ SubSeq(s, i, i + Len(k) - 1) = k

includes(s, k) == \E i \in 1..(Len(s) + 1) : StartsAt(s, i, k)

RECURSIVE SkipSpaces(_, _)
\* first index at or after i that holds no white space (Len(s) + 1 if none)
SkipSpaces(s, i) == IF i <= Len(s) /\ IsSpace(s[i]) THEN SkipSpaces(s, i + 1) ELSE i

RECURSIVE SkipWord(_, _)
\* first index at or after i that holds no word character
SkipWord(s, i) == IF i <= Len(s) /\ IsWordChar(s[i]) THEN SkipWord(s, i + 1) ELSE i

RECURSIVE SkipDigits(_, _)
SkipDigits(s, i) == IF i <= Len(s) /\ IsDigit(s[i]) THEN SkipDigits(s, i + 1) ELSE i

RECURSIVE DigitsValue(_, _, _, _)
DigitsValue(s, i, j, acc) ==
    IF i >= j THEN acc ELSE DigitsValue(s, i + 1, j, 10 * acc + (IndexIn(s[i], DigitChars) - 1))

NaN == -1

\* parseInt(s): optional white space, optional sign, then the leading decimal digits;
\* NaN when there is none.  (Negative results do not occur for the texts used.)
parseInt(s) ==
    LET b == SkipSpaces(s, 1)
        e == SkipDigits(s, b)
    IN  IF e = b THEN NaN ELSE DigitsValue(s, b, e, 0)

RECURSIVE toDecimal(_)
\* `${n}` for a non-negative integer n
toDecimal(n) ==
    IF n < 10 THEN <<DigitChars[n + 1]>> ELSE toDecimal(n \div 10) \o <<DigitChars[(n % 10) + 1]>>

Min(a, b) == IF a <= b THEN a ELSE b

-----------------------------------------------------------------------------
(* The query texts of the calls.  The text functions below are tabulated   *)
(* over them, so that a call looks its text up instead of scanning it anew. *)

SelectBlocks == <<"s", "e", "l", "e", "c", "t", " ", "*", " ", "f", "r", "o", "m", " ", "b", "l", "o", "c", "k", "s">>

SelectQuoted == <<"s", "e", "l", "e", "c", "t", " ", "'", "l", "i", "m", "i", "t", "'", " ", "f", "r", "o", "m", " ", "b", "l", "o", "c", "k", "s">>

DropTable == <<"d", "r", "o", "p", " ", "t", "a", "b", "l", "e", " ", "b", "l", "o", "c", "k", "s">>

\* a SELECT followed by a stacked DROP TABLE
Stacked == SelectBlocks \o <<";", " ">> \o DropTable

Queries == {SelectBlocks, SelectQuoted, DropTable, Stacked}

\* a SELECT with an INNER JOIN
InnerJoin == <<"s", "e", "l", "e", "c", "t", " ", "*", " ", "f", "r", "o", "m", " ", "b", "l", "o", "c", "k", "s", " ", "i", "n", "n", "e", "r", " ", "j", "o", "i", "n", " ", "e", "v", "e", "n", "t", "s", " ", "o", "n", " ", "a", " ", "=", " ", "b">>

\* a SELECT that groups by thirteen columns
GroupByMany == <<"s", "e", "l", "e", "c", "t", " ", "*", " ", "f", "r", "o", "m", " ", "b", "l", "o", "c", "k", "s", " ", "g", "r", "o", "u", "p", " ", "b", "y", " ", "a", " ", "b", " ", "c", " ", "d", " ", "e", " ", "f", " ", "g", " ", "h", " ", "i", " ", "j", " ", "k", " ", "l", " ", "m">>

\* the texts of the calls made while the configuration changes
ConfigQueries == {SelectBlocks, InnerJoin, GroupByMany}

\* the texts whose validation, plan and hash are computed once
Known == Queries \cup ConfigQueries

-----------------------------------------------------------------------------
(* errorHandler.ts: QueryErrorHandler.validateQuery and the classifier.    *)

\* /A\s+B/i on the upper-cased text u
MatchWordsSpaced(u, a, b) ==
    \E i \in 1..Len(u) :
        /\ StartsAt(u, i, a)
        /\ i + Len(a) <= Len(u) /\ IsSpace(u[i + Len(a)])
        /\ StartsAt(u, SkipSpaces(u, i + Len(a)), b)

\* /UPDATE\s+\w+\s+SET/i on the upper-cased text u
MatchUpdateSet(u) ==
    \E i \in 1..Len(u) :
        LET a == i + 6
            w == SkipSpaces(u, a)
            e == SkipWord(u, w)
        IN  /\ StartsAt(u, i, <<"U", "P", "D", "A", "T", "E">>)
            /\ w > a /\ e > w
            /\ e <= Len(u) /\ IsSpace(u[e])
            /\ StartsAt(u, SkipSpaces(u, e), <<"S", "E", "T">>)

\* /A\s*\(/i on the upper-cased text u
MatchCall(u, a) ==
    \E i \in 1..Len(u) : StartsAt(u, i, a) /\ StartsAt(u, SkipSpaces(u, i + Len(a)), <<"(">>)

\* dangerousPatterns, in the order of the source: TRUE where the pattern matches
dangerousPatterns(query) ==
    LET u == toUpperCase(query)
    IN  <<MatchWordsSpaced(u, <<"D", "R", "O", "P">>, <<"T", "A", "B", "L", "E">>),
          MatchWordsSpaced(u, <<"D", "E", "L", "E", "T", "E">>, <<"F", "R", "O", "M">>),
          MatchUpdateSet(u),
          MatchWordsSpaced(u, <<"I", "N", "S", "E", "R", "T">>, <<"I", "N", "T", "O">>),
          MatchWordsSpaced(u, <<"C", "R", "E", "A", "T", "E">>, <<"T", "A", "B", "L", "E">>),
          MatchWordsSpaced(u, <<"A", "L", "T", "E", "R">>, <<"T", "A", "B", "L", "E">>),
          includes(u, <<"T", "R", "U", "N", "C", "A", "T", "E">>),
          MatchCall(u, <<"E", "X", "E", "C">>),
          MatchCall(u, <<"E", "X", "E", "C", "U", "T", "E">>),
          includes(u, <<"X", "P", "_", "C", "M", "D", "S", "H", "E", "L", "L">>),
          includes(u, <<"S", "P", "_", "E", "X", "E", "C", "U", "T", "E", "S", "Q", "L">>)>>

\* QueryErrorHandler.validateQuery: errors holds the ErrorType of each entry.  The
\* warnings (strings only, read by no decision of the code) are left out.
QueryErrorHandler_validateQuery(query) ==
    LET empty == IF Len(trim(query)) = 0 THEN <<"SYNTAX_ERROR">> ELSE <<>>
        hits == dangerousPatterns(query)
        danger == [i \in 1..Cardinality({j \in DOMAIN hits : hits[j]}) |-> "PERMISSION_ERROR"]
        errors == empty \o danger
    IN  [isValid |-> errors = <<>>, errors |-> errors]

\* QueryErrorHandler.validateQuery over the texts of the calls
validations == [q \in Known |-> QueryErrorHandler_validateQuery(q)]

validationOf(query) ==
    IF query \in Known THEN validations[query] ELSE QueryErrorHandler_validateQuery(query)

\* QueryErrorHandler.handleExecutionError: the ErrorType chosen for an Error whose
\* message is msg (String.includes is case-sensitive)
classifyError(msg) ==
    IF includes(msg, <<"t", "i", "m", "e", "o", "u", "t">>) THEN "TIMEOUT_ERROR"
    ELSE IF includes(msg, <<"r", "a", "t", "e", " ", "l", "i", "m", "i", "t">>) THEN "RATE_LIMIT_ERROR"
    ELSE IF includes(msg, <<"p", "e", "r", "m", "i", "s", "s", "i", "o", "n">>) \/ includes(msg, <<"a", "c", "c", "e", "s", "s", " ", "d", "e", "n", "i", "e", "d">>)
        THEN "PERMISSION_ERROR"
    ELSE IF includes(msg, <<"c", "o", "n", "n", "e", "c", "t", "i", "o", "n">>) THEN "CONNECTION_ERROR"
    ELSE IF includes(msg, <<"m", "e", "m", "o", "r", "y">>) \/ includes(msg, <<"r", "e", "s", "o", "u", "r", "c", "e">>) THEN "RESOURCE_ERROR"
    ELSE IF includes(msg, <<"s", "y", "n", "t", "a", "x">>) THEN "SYNTAX_ERROR"
    ELSE IF includes(msg, <<"d", "a", "t", "a">>) \/ includes(msg, <<"c", "o", "l", "u", "m", "n">>) THEN "DATA_ERROR"
    ELSE "EXECUTION_ERROR"

-----------------------------------------------------------------------------
(* sqlQueryEngine.ts: the text functions of SQLQueryEngine.                *)

DANGEROUS_KEYWORDS ==
    <<<<"D", "R", "O", "P">>,
      <<"D", "E", "L", "E", "T", "E">>,
      <<"U", "P", "D", "A", "T", "E">>,
      <<"I", "N", "S", "E", "R", "T">>,
      <<"A", "L", "T", "E", "R">>,
      <<"C", "R", "E", "A", "T", "E">>,
      <<"T", "R", "U", "N", "C", "A", "T", "E">>,
      <<"R", "E", "P", "L", "A", "C", "E">>,
      <<"M", "E", "R", "G", "E">>,
      <<"G", "R", "A", "N", "T">>,
      <<"R", "E", "V", "O", "K", "E">>,
      <<"E", "X", "E", "C">>,
      <<"E", "X", "E", "C", "U", "T", "E">>>>

\* the tables of the SQLite database (StarkNetDataSchema.createTables)
DatabaseTables ==
    {<<"b", "l", "o", "c", "k", "s">>,
     <<"t", "r", "a", "n", "s", "a", "c", "t", "i", "o", "n", "s">>,
     <<"e", "v", "e", "n", "t", "s">>,
     <<"c", "o", "n", "t", "r", "a", "c", "t", "s">>,
     <<"s", "t", "o", "r", "a", "g", "e", "_", "d", "i", "f", "f", "s">>,
     <<"q", "u", "e", "r", "y", "_", "e", "x", "e", "c", "u", "t", "i", "o", "n", "s">>}

RECURSIVE extractTableNamesFrom(_, _)
\* the matches of /FROM\s+(\w+)/gi from index p on, each lower-cased
extractTableNamesFrom(query, p) ==
    LET u == toUpperCase(query)
        hit(i) ==
            /\ StartsAt(u, i, <<"F", "R", "O", "M">>)
            /\ SkipSpaces(u, i + 4) > i + 4
            /\ SkipWord(u, SkipSpaces(u, i + 4)) > SkipSpaces(u, i + 4)
        hits == {i \in p..Len(u) : hit(i)}
    IN  IF hits = {} THEN <<>>
        ELSE LET i == CHOOSE h \in hits : \A g \in hits : h <= g
                 b == SkipSpaces(u, i + 4)
                 e == SkipWord(u, b)
             IN  <<toLowerCase(SubSeq(query, b, e - 1))>> \o extractTableNamesFrom(query, e)

extractTableNames(query) == extractTableNamesFrom(query, 1)

\* SQLQueryEngine.tableExists against the tables the database holds
tableExists(tableName) == tableName \in DatabaseTables

\* SQLQueryEngine.validateQuery: errors holds one entry per error pushed, "dangerous"
\* for a DANGEROUS_KEYWORDS hit, "not_select", "no_table"
SQLQueryEngine_validateQuery(query) ==
    LET upperQuery == toUpperCase(query)
        danger == {i \in DOMAIN DANGEROUS_KEYWORDS : includes(upperQuery, DANGEROUS_KEYWORDS[i])}
        tables == extractTableNames(query)
        absent == {i \in DOMAIN tables : ~tableExists(tables[i])}
        errors ==
            [i \in 1..Cardinality(danger) |-> "dangerous"]
            \o (IF includes(upperQuery, <<"S", "E", "L", "E", "C", "T">>) THEN <<>> ELSE <<"not_select">>)
            \o [i \in 1..Cardinality(absent) |-> "no_table"]
    IN  [isValid |-> errors = <<>>, errors |-> errors, danger |-> danger]

\* SQLQueryEngine.validateQuery over the texts of the calls
safeties == [q \in Known |-> SQLQueryEngine_validateQuery(q)]

safetyOf(query) ==
    IF query \in Known THEN safeties[query] ELSE SQLQueryEngine_validateQuery(query)

\* SQLQueryEngine.addLimitToQuery
addLimitToQuery(query, maxRows) ==
    IF includes(toUpperCase(query), <<"L", "I", "M", "I", "T">>) THEN query
    ELSE query \o <<" ", "L", "I", "M", "I", "T", " ">> \o toDecimal(maxRows)

-----------------------------------------------------------------------------
(* sqlParser.ts: StarkNetSQLParser.                                        *)

Undefined == -1

\* Object.keys(STARKNET_SCHEMAS)
STARKNET_SCHEMAS ==
    <<<<"b", "l", "o", "c", "k", "s">>, <<"t", "r", "a", "n", "s", "a", "c", "t", "i", "o", "n", "s">>, <<"e", "v", "e", "n", "t", "s">>, <<"c", "o", "n", "t", "r", "a", "c", "t", "s">>, <<"s", "t", "o", "r", "a", "g", "e", "_", "d", "i", "f", "f", "s">>>>

operators ==
    {<<"=">>, <<"!", "=">>, <<"<", ">">>, <<"<">>, <<">">>, <<"<", "=">>, <<">", "=">>, <<"L", "I", "K", "E">>, <<"I", "N">>, <<"B", "E", "T", "W", "E", "E", "N">>, <<"I", "S">>}

\* query.replace(/\s+/g, ' '): every run of white space becomes one blank
collapseSpaces(s) ==
    LET marked == [i \in 1..Len(s) |->
                      [c |-> IF IsSpace(s[i]) THEN " " ELSE s[i],
                       drop |-> IsSpace(s[i]) /\ i > 1 /\ IsSpace(s[i - 1])]]
        kept == SelectSeq(marked, LAMBDA m : ~m.drop)
    IN  [i \in 1..Len(kept) |-> kept[i].c]

normalizeQuery(query) == toUpperCase(trim(collapseSpaces(query)))

\* one step of the quote tracking of tokenize: quoteChar ("" outside quotes) after char
quoteStep(quoteChar, char) ==
    IF char \in {"\"", "'"} /\ quoteChar = "" THEN char
    ELSE IF quoteChar # "" /\ char = quoteChar THEN ""
    ELSE quoteChar

RECURSIVE quoteAfter(_, _, _, _)
\* quoteChar after the characters a..b of query, starting from quoteChar q
quoteAfter(query, a, b, q) ==
    IF a > b THEN q
    ELSE IF a = b THEN quoteStep(q, query[a])
    ELSE quoteAfter(query, ((a + b) \div 2) + 1, b, quoteAfter(query, a, (a + b) \div 2, q))

\* StarkNetSQLParser.tokenize: the text is cut at every blank outside quotes, and each
\* piece that is not empty after trim() is a token
tokenize(query) ==
    LET n == Len(query)
        quoted == \E i \in 1..n : query[i] \in {"\"", "'"}
        inQuotes(i) == quoted /\ quoteAfter(query, 1, i - 1, "") # ""
        cuts == SelectSeq([i \in 1..(n + 1) |-> i],
                          LAMBDA i : i = n + 1 \/ (query[i] = " " /\ ~inQuotes(i)))
        pieces == [k \in 1..Len(cuts) |->
                      trim(SubSeq(query, IF k = 1 THEN 1 ELSE cuts[k - 1] + 1, cuts[k] - 1))]
    IN  SelectSeq(pieces, LAMBDA t : t # <<>>)

getQueryType(firstToken) ==
    LET t == toUpperCase(firstToken)
    IN  IF t = <<"S", "E", "L", "E", "C", "T">> THEN "SELECT"
        ELSE IF t = <<"I", "N", "S", "E", "R", "T">> THEN "INSERT"
        ELSE IF t = <<"U", "P", "D", "A", "T", "E">> THEN "UPDATE"
        ELSE IF t = <<"D", "E", "L", "E", "T", "E">> THEN "DELETE"
        ELSE IF t = <<"C", "R", "E", "A", "T", "E">> THEN "CREATE"
        ELSE IF t = <<"D", "R", "O", "P">> THEN "DROP"
        ELSE IF t = <<"A", "L", "T", "E", "R">> THEN "ALTER"
        ELSE "SELECT"

\* tokens[i].toUpperCase() of the token at the 1-based index i
Tok(tokens, i) == toUpperCase(tokens[i])

RECURSIVE parseWhereClause(_, _, _)
\* returns [i, conditions]: the index where the loop stopped and the conditions
parseWhereClause(tokens, i, conditions) ==
    IF i > Len(tokens) \/ Tok(tokens, i) \in {<<"O", "R", "D", "E", "R">>, <<"G", "R", "O", "U", "P">>, <<"H", "A", "V", "I", "N", "G">>, <<"L", "I", "M", "I", "T">>}
    THEN [i |-> i, conditions |-> conditions]
    ELSE IF i + 2 <= Len(tokens) /\ Tok(tokens, i + 1) \in operators
    THEN LET cond ==
                 [column |-> tokens[i], operator |-> tokens[i + 1], value |-> tokens[i + 2],
                  logicalOperator |->
                      IF i + 3 <= Len(tokens) /\ Tok(tokens, i + 3) \in {<<"A", "N", "D">>, <<"O", "R">>}
                      THEN Tok(tokens, i + 3) ELSE <<>>]
             j == IF i + 3 <= Len(tokens) /\ Tok(tokens, i + 3) \in {<<"A", "N", "D">>, <<"O", "R">>}
                  THEN i + 4 ELSE i + 3
         IN  parseWhereClause(tokens, j, Append(conditions, cond))
    ELSE parseWhereClause(tokens, i + 1, conditions)

RECURSIVE onClauseEnd(_, _)
\* the index where the ON expression of a join ends
onClauseEnd(tokens, i) ==
    IF i <= Len(tokens)
       /\ Tok(tokens, i) \notin
              {<<"W", "H", "E", "R", "E">>, <<"O", "R", "D", "E", "R">>, <<"G", "R", "O", "U", "P">>, <<"L", "I", "M", "I", "T">>, <<"I", "N", "N", "E", "R">>, <<"L", "E", "F", "T">>, <<"R", "I", "G", "H", "T">>, <<"F", "U", "L", "L">>}
    THEN onClauseEnd(tokens, i + 1) ELSE i

\* returns [i, joins]
parseJoinClause(tokens, startIndex, joins) ==
    LET i1 == startIndex + 1
    IN  IF i1 <= Len(tokens) /\ Tok(tokens, i1) = <<"J", "O", "I", "N">>
        THEN IF i1 + 1 <= Len(tokens)
             THEN IF i1 + 2 <= Len(tokens) /\ Tok(tokens, i1 + 2) = <<"O", "N">>
                  THEN LET e == onClauseEnd(tokens, i1 + 3)
                       IN  [i |-> e,
                            joins |-> Append(joins,
                                [type |-> Tok(tokens, startIndex), table |-> tokens[i1 + 1],
                                 on |-> SubSeq(tokens, i1 + 3, e - 1)])]
                  ELSE [i |-> i1 + 2, joins |-> joins]
             ELSE [i |-> i1 + 1, joins |-> joins]
        ELSE [i |-> i1, joins |-> joins]

RECURSIVE orderByLoop(_, _, _)
orderByLoop(tokens, i, orderBy) ==
    IF i > Len(tokens) \/ Tok(tokens, i) \in {<<"G", "R", "O", "U", "P">>, <<"L", "I", "M", "I", "T">>}
    THEN [i |-> i, orderBy |-> orderBy]
    ELSE IF tokens[i] # <<",">>
    THEN LET direction ==
                 IF i + 1 <= Len(tokens) /\ Tok(tokens, i + 1) \in {<<"A", "S", "C">>, <<"D", "E", "S", "C">>}
                 THEN Tok(tokens, i + 1) ELSE <<"A", "S", "C">>
         IN  orderByLoop(tokens, IF direction # <<"A", "S", "C">> THEN i + 2 ELSE i + 1,
                         Append(orderBy, [column |-> tokens[i], direction |-> direction]))
    ELSE orderByLoop(tokens, i + 1, orderBy)

\* returns [i, orderBy]
parseOrderBy(tokens, startIndex, orderBy) ==
    IF startIndex + 1 <= Len(tokens) /\ Tok(tokens, startIndex + 1) = <<"B", "Y">>
    THEN orderByLoop(tokens, startIndex + 2, orderBy)
    ELSE [i |-> startIndex + 1, orderBy |-> orderBy]

RECURSIVE groupByLoop(_, _, _)
groupByLoop(tokens, i, groupBy) ==
    IF i > Len(tokens) \/ Tok(tokens, i) \in {<<"H", "A", "V", "I", "N", "G">>, <<"O", "R", "D", "E", "R">>, <<"L", "I", "M", "I", "T">>}
    THEN [i |-> i, groupBy |-> groupBy]
    ELSE groupByLoop(tokens, i + 1,
                     IF tokens[i] # <<",">> THEN Append(groupBy, tokens[i]) ELSE groupBy)

\* returns [i, groupBy]
parseGroupBy(tokens, startIndex, groupBy) ==
    IF startIndex + 1 <= Len(tokens) /\ Tok(tokens, startIndex + 1) = <<"B", "Y">>
    THEN groupByLoop(tokens, startIndex + 2, groupBy)
    ELSE [i |-> startIndex + 1, groupBy |-> groupBy]

\* returns [i, limit, offset]
parseLimit(tokens, startIndex) ==
    LET i == startIndex + 1
        limitValue == IF i <= Len(tokens) THEN parseInt(tokens[i]) ELSE NaN
        hasOffset == i + 1 <= Len(tokens) /\ Tok(tokens, i + 1) = <<"O", "F", "F", "S", "E", "T">>
        offsetValue == IF hasOffset /\ i + 2 <= Len(tokens) THEN parseInt(tokens[i + 2]) ELSE NaN
    IN  IF limitValue = NaN THEN [i |-> i, limit |-> Undefined, offset |-> Undefined]
        ELSE IF ~hasOffset THEN [i |-> i + 1, limit |-> limitValue, offset |-> Undefined]
        ELSE IF offsetValue = NaN THEN [i |-> i + 2, limit |-> limitValue, offset |-> Undefined]
        ELSE [i |-> i + 3, limit |-> limitValue, offset |-> offsetValue]

RECURSIVE columnsEnd(_, _)
\* the index of FROM after the column list (Len(tokens) + 1 if none)
columnsEnd(tokens, i) ==
    IF i <= Len(tokens) /\ Tok(tokens, i) # <<"F", "R", "O", "M">> THEN columnsEnd(tokens, i + 1) ELSE i

RECURSIVE tablesLoop(_, _, _)
\* the "Parse tables and joins" loop of parseSelectQuery
tablesLoop(tokens, i, result) ==
    IF i > Len(tokens) THEN result
    ELSE LET token == Tok(tokens, i)
         IN  IF token = <<"W", "H", "E", "R", "E">>
             THEN [result EXCEPT
                      !.conditions = parseWhereClause(tokens, i + 1, result.conditions).conditions]
             ELSE IF token \in {<<"I", "N", "N", "E", "R">>, <<"L", "E", "F", "T">>, <<"R", "I", "G", "H", "T">>, <<"F", "U", "L", "L">>}
             THEN LET j == parseJoinClause(tokens, i, result.joins)
                  IN  tablesLoop(tokens, j.i + 1, [result EXCEPT !.joins = j.joins])
             ELSE IF token = <<"O", "R", "D", "E", "R">>
             THEN [result EXCEPT !.orderBy = parseOrderBy(tokens, i, result.orderBy).orderBy]
             ELSE IF token = <<"G", "R", "O", "U", "P">>
             THEN LET g == parseGroupBy(tokens, i, result.groupBy)
                  IN  tablesLoop(tokens, g.i + 1, [result EXCEPT !.groupBy = g.groupBy])
             ELSE IF token = <<"L", "I", "M", "I", "T">>
             THEN LET l == parseLimit(tokens, i)
                  IN  [result EXCEPT !.limit = l.limit, !.offset = l.offset]
             ELSE IF token \notin {<<"J", "O", "I", "N">>, <<"B", "Y">>}
             THEN tablesLoop(tokens, i + 1, [result EXCEPT !.tables = Append(@, tokens[i])])
             ELSE tablesLoop(tokens, i + 1, result)

parseSelectQuery(tokens, result) ==
    LET f == columnsEnd(tokens, 2)
        cols == SelectSeq(SubSeq(tokens, 2, f - 1), LAMBDA t : t # <<",">>)
        withCols == [result EXCEPT !.columns = cols]
    IN  IF f > Len(tokens)
        THEN [withCols EXCEPT !.errors = Append(@, "missing_from"), !.isValid = FALSE]
        ELSE tablesLoop(tokens, f + 1, withCols)

RECURSIVE validateTablesFrom(_, _)
validateTablesFrom(result, k) ==
    IF k > Len(result.tables) THEN result
    ELSE IF toLowerCase(result.tables[k]) \notin Range(STARKNET_SCHEMAS)
    THEN validateTablesFrom(
             [result EXCEPT !.errors = Append(@, "unknown_table"), !.isValid = FALSE], k + 1)
    ELSE validateTablesFrom(result, k + 1)

\* a validateTables that reports the unknown tables and leaves isValid as it was
validateTables_keepsValid(result) ==
    [validateTablesFrom(result, 1) EXCEPT !.isValid = result.isValid]

validateTables(result) == validateTablesFrom(result, 1)

DEFAULT_LIMIT == 1000

MAX_LIMIT == 10000

MAX_COMPLEXITY == 50

\* !result.limit
NoLimit(limit) == limit = Undefined \/ limit = 0

\* a calculateComplexity that weighs a table like a join
calculateComplexity_heavyTables(result) ==
    1 + Len(result.tables) * 5 + Len(result.joins) * 5 + Len(result.conditions) * 2
      + Len(result.groupBy) * 3 + Len(result.orderBy) * 2
      + (IF NoLimit(result.limit) \/ result.limit > 1000 THEN 10 ELSE 0)

calculateComplexity(result) ==
    1 + Len(result.tables) * 2 + Len(result.joins) * 5 + Len(result.conditions) * 2
      + Len(result.groupBy) * 3 + Len(result.orderBy) * 2
      + (IF NoLimit(result.limit) \/ result.limit > 1000 THEN 10 ELSE 0)

\* an applyResourceLimits without the complexity ceiling
applyResourceLimits_noCeiling(result) ==
    IF NoLimit(result.limit) THEN [result EXCEPT !.limit = DEFAULT_LIMIT]
    ELSE IF result.limit > MAX_LIMIT
    THEN [result EXCEPT !.errors = Append(@, "limit_too_large"), !.isValid = FALSE]
    ELSE result

applyResourceLimits(result) ==
    LET r1 == IF result.estimatedComplexity > MAX_COMPLEXITY
              THEN [result EXCEPT !.errors = Append(@, "too_complex"), !.isValid = FALSE]
              ELSE result
    IN  IF NoLimit(r1.limit) THEN [r1 EXCEPT !.limit = DEFAULT_LIMIT]
        ELSE IF r1.limit > MAX_LIMIT
        THEN [r1 EXCEPT !.errors = Append(@, "limit_too_large"), !.isValid = FALSE]
        ELSE r1

\* StarkNetSQLParser.parse.  errors holds one tag per message pushed.
parse(query) ==
    LET result ==
            [type |-> "SELECT", tables |-> <<>>, columns |-> <<>>, conditions |-> <<>>,
             joins |-> <<>>, orderBy |-> <<>>, groupBy |-> <<>>, limit |-> Undefined,
             offset |-> Undefined, isValid |-> TRUE, errors |-> <<>>,
             estimatedComplexity |-> 0]
        tokens == tokenize(normalizeQuery(query))
    IN  IF Len(tokens) = 0
        THEN [result EXCEPT !.isValid = FALSE, !.errors = <<"empty">>]
        ELSE IF getQueryType(tokens[1]) # "SELECT"
        THEN [result EXCEPT !.type = getQueryType(tokens[1]), !.isValid = FALSE,
                            !.errors = <<"not_select">>]
        ELSE LET parsed == validateTables(parseSelectQuery(tokens, result))
                 scored == [parsed EXCEPT !.estimatedComplexity = calculateComplexity(parsed)]
             IN  applyResourceLimits(scored)

\* StarkNetSQLParser.parse over the texts of the calls
parses == [q \in Known |-> parse(q)]

parseOf(query) == IF query \in Known THEN parses[query] ELSE parse(query)

-----------------------------------------------------------------------------
(* queryCache.ts: QueryCache.  The Map is a sequence of entries in         *)
(* insertion order with distinct queryHash.                                 *)

\* String.charCodeAt for the characters of the texts
charCode(c) ==
    IF IsLower(c) THEN 96 + IndexIn(c, LowerCase)
    ELSE IF IsUpper(c) THEN 64 + IndexIn(c, UpperCase)
    ELSE IF IsDigit(c) THEN 47 + IndexIn(c, DigitChars)
    ELSE CASE c = " " -> 32 [] c = "\n" -> 10 [] c = "\t" -> 9 [] c = "!" -> 33
           [] c = "\"" -> 34 [] c = "'" -> 39 [] c = "(" -> 40 [] c = ")" -> 41
           [] c = "*" -> 42 [] c = "," -> 44 [] c = "-" -> 45 [] c = "." -> 46
           [] c = ";" -> 59 [] c = "<" -> 60 [] c = "=" -> 61 [] c = ">" -> 62
           [] c = "[" -> 91 [] c = "_" -> 95

\* one round of the loop of generateQueryHash on a 32-bit integer kept as two 16-bit
\* halves: hash = ((hash << 5) - hash) + char; hash = hash & hash
hashStep(h, char) ==
    LET l == h[2] * 31 + char
    IN  <<(h[1] * 31 + (l \div 65536)) % 65536, l % 65536>>

RECURSIVE hashLoop(_, _, _, _)
\* the loop of generateQueryHash over query[from..to], by halves of the range
hashLoop(query, from, to, h) ==
    IF from > to THEN h
    ELSE IF from = to THEN hashStep(h, charCode(query[from]))
    ELSE LET mid == (from + to) \div 2
             left == hashLoop(query, from, mid, h)
         IN  IF left[1] >= 0 THEN hashLoop(query, mid + 1, to, left) ELSE left

\* QueryCache.generateQueryHash: Math.abs(hash).toString(36), kept as the two halves of
\* Math.abs(hash) (toString(36) is one-to-one on them)
generateQueryHash(query) ==
    LET h == hashLoop(query, 1, Len(query), <<0, 0>>)
    IN  IF h[1] < 32768 THEN h
        ELSE IF h[2] = 0 THEN <<65536 - h[1], 0>>
        ELSE <<65535 - h[1], 65536 - h[2]>>

\* generateQueryHash(query.toLowerCase().trim()) over the texts of the calls
hashes == [q \in Known |-> generateQueryHash(trim(toLowerCase(q)))]

hashOf(query) ==
    IF query \in Known THEN hashes[query] ELSE generateQueryHash(trim(toLowerCase(query)))

\* 1000 in the source (queryCache.ts, maxCacheSize); scaled so that overflow is reached
maxCacheSize == 2

maxCacheAge == 5 * 60 * 1000

\* index of the entry stored under hash, 0 if none
cacheIndex(c, hash) ==
    IF \E i \in DOMAIN c : c[i].queryHash = hash
    THEN CHOOSE i \in DOMAIN c : c[i].queryHash = hash ELSE 0

\* Map.delete
cacheDelete(c, hash) == SelectSeq(c, LAMBDA e : e.queryHash # hash)

\* Map.set: an existing key keeps its place
cachePut(c, entry) ==
    IF cacheIndex(c, entry.queryHash) = 0 THEN Append(c, entry)
    ELSE [c EXCEPT ![cacheIndex(c, entry.queryHash)] = entry]

NoEntry == [queryHash |-> <<>>]

\* a get that does not look at the age of the entry
QueryCache_get_ignoresAge(c, query, t) ==
    LET i == cacheIndex(c, hashOf(query))
    IN  IF i = 0 THEN [cache |-> c, entry |-> NoEntry]
        ELSE [cache |-> [c EXCEPT ![i].hitCount = @ + 1, ![i].lastAccessed = t],
              entry |-> [c[i] EXCEPT !.hitCount = @ + 1, !.lastAccessed = t]]

\* a get whose hit also renews the timestamp of the entry
QueryCache_get_renewsEntry(c, query, t) ==
    LET hash == hashOf(query)
        i == cacheIndex(c, hash)
    IN  IF i = 0 THEN [cache |-> c, entry |-> NoEntry]
        ELSE IF t - c[i].timestamp > maxCacheAge
        THEN [cache |-> cacheDelete(c, hash), entry |-> NoEntry]
        ELSE LET e == [c[i] EXCEPT !.hitCount = @ + 1, !.lastAccessed = t, !.timestamp = t]
             IN  [cache |-> [c EXCEPT ![i] = e], entry |-> e]

\* QueryCache.get at time t: [cache, entry], entry = NoEntry for null
QueryCache_get(c, query, t) ==
    LET hash == hashOf(query)
        i == cacheIndex(c, hash)
    IN  IF i = 0 THEN [cache |-> c, entry |-> NoEntry]
        ELSE IF t - c[i].timestamp > maxCacheAge
        THEN [cache |-> cacheDelete(c, hash), entry |-> NoEntry]
        ELSE LET e == [c[i] EXCEPT !.hitCount = @ + 1, !.lastAccessed = t]
             IN  [cache |-> [c EXCEPT ![i] = e], entry |-> e]

\* QueryCache.evictLeastRecentlyUsed at time t: the first entry, in Map order, whose
\* lastAccessed is the least among those below oldestTime = Date.now()
evictLeastRecentlyUsed(c, t) ==
    LET older == {i \in DOMAIN c : c[i].lastAccessed < t}
    IN  IF older = {} THEN c
        ELSE LET least == {i \in older : \A j \in older : c[i].lastAccessed <= c[j].lastAccessed}
                 oldestEntry == CHOOSE i \in least : \A j \in least : i <= j
             IN  cacheDelete(c, c[oldestEntry].queryHash)

\* QueryCache.set: Date.now() reads t in set and tEvict >= t in evictLeastRecentlyUsed
QueryCache_set(c, query, result, executionTime, t, tEvict) ==
    LET entry == [query |-> trim(query),
                  queryHash |-> hashOf(query),
                  result |-> result, timestamp |-> t, executionTime |-> executionTime,
                  hitCount |-> 0, lastAccessed |-> t]
        put == cachePut(c, entry)
    IN  IF Len(put) > maxCacheSize THEN evictLeastRecentlyUsed(put, tEvict) ELSE put

\* QueryCache.cleanup, run by the one-minute interval timer
cleanup(c, t) == SelectSeq(c, LAMBDA e : ~(t - e.timestamp > maxCacheAge))

-----------------------------------------------------------------------------
(* sqlQueryEngine.ts: the result cache of SQLQueryEngine, a Map keyed by   *)
(* the raw query text.                                                     *)

CACHE_TTL == 5 * 60 * 1000

\* 100 in the source (cacheResult, "Limit cache size"); scaled
engineCacheLimit == 2

engineIndex(c, query) ==
    IF \E i \in DOMAIN c : c[i].query = query
    THEN CHOOSE i \in DOMAIN c : c[i].query = query ELSE 0

\* a getCachedResult that takes the TTL for seconds
getCachedResult_ttlInSeconds(c, query, t) ==
    LET i == engineIndex(c, query)
    IN  IF i # 0 /\ t - c[i].timestamp < 5 * 60
        THEN [cache |-> c, hit |-> TRUE, result |-> [c[i].result EXCEPT !.fromCache = TRUE],
              timestamp |-> c[i].timestamp]
        ELSE [cache |-> SelectSeq(c, LAMBDA e : e.query # query), hit |-> FALSE,
              result |-> <<>>, timestamp |-> 0]

\* SQLQueryEngine.getCachedResult at time t: [cache, hit, result, timestamp]
getCachedResult(c, query, t) ==
    LET i == engineIndex(c, query)
    IN  IF i # 0 /\ t - c[i].timestamp < CACHE_TTL
        THEN [cache |-> c, hit |-> TRUE, result |-> [c[i].result EXCEPT !.fromCache = TRUE],
              timestamp |-> c[i].timestamp]
        ELSE [cache |-> SelectSeq(c, LAMBDA e : e.query # query), hit |-> FALSE,
              result |-> <<>>, timestamp |-> 0]

\* SQLQueryEngine.cacheResult at time t
cacheResult(c, query, result, t) ==
    LET room == IF Len(c) >= engineCacheLimit THEN Tail(c) ELSE c
        entry == [query |-> query, result |-> [result EXCEPT !.fromCache = FALSE],
                  timestamp |-> t]
    IN  IF engineIndex(room, query) = 0 THEN Append(room, entry)
        ELSE [room EXCEPT ![engineIndex(room, query)] = entry]

-----------------------------------------------------------------------------
(* Results, rows and calls.                                                *)

\* an array of rows: the first n rows that the storage holds at snapshot ver
Rows(ver, n) == [ver |-> ver, n |-> n]

NoData == [ver |-> 0 - 1, n |-> 0]

\* Array.slice(0, k)
slice(data, k) == [data EXCEPT !.n = Min(@, k)]

\* the result of a call that has not returned yet
Pending ==
    [kind |-> "pending", success |-> FALSE, data |-> NoData, rowCount |-> 0,
     fromCache |-> FALSE, executionTime |-> 0]

\* QueryResult with success = true
Success(data, executionTime, fromCache) ==
    [kind |-> "ok", success |-> TRUE, data |-> data, rowCount |-> data.n,
     fromCache |-> fromCache, executionTime |-> executionTime]

\* QueryResult with success = false, or the Error thrown; kind names the message
Failure(kind, executionTime) ==
    [kind |-> kind, success |-> FALSE, data |-> NoData, rowCount |-> 0,
     fromCache |-> FALSE, executionTime |-> executionTime]

\* the error messages of querySandbox.ts, sqlQueryEngine.ts and queryExecutionRoutes.ts
ErrorMessage(kind) ==
    CASE kind = "rate_limit" -> <<"R", "a", "t", "e", " ", "l", "i", "m", "i", "t", " ", "e", "x", "c", "e", "e", "d", "e", "d", ".", " ", "P", "l", "e", "a", "s", "e", " ", "w", "a", "i", "t", " ", "b", "e", "f", "o", "r", "e", " ", "e", "x", "e", "c", "u", "t", "i", "n", "g", " ", "a", "n", "o", "t", "h", "e", "r", " ", "q", "u", "e", "r", "y", ".">>
      [] kind = "validation" -> <<"Q", "u", "e", "r", "y", " ", "v", "a", "l", "i", "d", "a", "t", "i", "o", "n", " ", "f", "a", "i", "l", "e", "d", ":", " ">>
      [] kind = "access_denied" -> <<"A", "c", "c", "e", "s", "s", " ", "d", "e", "n", "i", "e", "d", " ", "t", "o", " ", "t", "a", "b", "l", "e", ":", " ">>
      [] kind = "timeout" -> <<"Q", "u", "e", "r", "y", " ", "e", "x", "e", "c", "u", "t", "i", "o", "n", " ", "t", "i", "m", "e", "o", "u", "t", " ", "(", "3", "0", "0", "0", "0", "m", "s", ")">>
      [] kind = "engine_timeout" -> <<"Q", "u", "e", "r", "y", " ", "t", "i", "m", "e", "o", "u", "t", " ", "e", "x", "c", "e", "e", "d", "e", "d">>
      [] kind = "storage_error" -> <<"c", "o", "n", "n", "e", "c", "t", "i", "o", "n", " ", "l", "o", "s", "t">>
      [] kind = "too_many_requests" -> <<"R", "a", "t", "e", " ", "l", "i", "m", "i", "t", " ", "e", "x", "c", "e", "e", "d", "e", "d">>
      [] OTHER -> <<>>

NoUser == ""

\* an executeQuery call at its entry.  pc, timer, storage: where the call is; sentLimit:
\* the LIMIT of the statement handed to the storage; lookup, age, entryTime: what the
\* cache lookup found and the timestamp of the entry read or written; rate, overQuota:
\* what the limiter said and whether the quota was used up; touched: the first segment
\* changed the cache or the counters; began, ended: the order of entries and returns;
\* parsed: the text was handed to sqlParser.parse; catalog: the number of tableExists
\* lookups that validateQuery sent to the database; logged: the route has added the
\* execution to query_executions with logQueryExecution
NewCall(api, query, userId, useCache, maxRows, t) ==
    [api |-> api, via |-> api, query |-> query, userId |-> userId, useCache |-> useCache,
     maxRows |-> maxRows, startTime |-> t, pc |-> "done", timer |-> "none",
     deadline |-> 0, storage |-> "none", sentLimit |-> Undefined, lookup |-> "none",
     age |-> 0, entryTime |-> 0 - 1, rate |-> "skipped", overQuota |-> FALSE,
     touched |-> FALSE, began |-> 0, ended |-> 0, parsed |-> FALSE, catalog |-> 0,
     logged |-> FALSE, result |-> Pending]
-----------------------------------------------------------------------------
(* querySandbox.ts: QueryExecutionSandbox.                                 *)

\* a checkRateLimit that records the rejected attempts too
checkRateLimit_recordsRejected(history, userId, quota, t) ==
    LET recentExecutions == SelectSeq(history[userId], LAMBDA time : t - time < 60000)
    IN  [ok |-> Len(recentExecutions) < quota,
         history |-> [history EXCEPT ![userId] = Append(recentExecutions, t)]]

\* QueryExecutionSandbox.checkRateLimit at time t: [ok, history]
checkRateLimit(history, userId, quota, t) ==
    LET userHistory == history[userId]
        recentExecutions == SelectSeq(userHistory, LAMBDA time : t - time < 60000)
    IN  IF Len(recentExecutions) >= quota
        THEN [ok |-> FALSE, history |-> history]
        ELSE [ok |-> TRUE,
              history |-> [history EXCEPT ![userId] = Append(recentExecutions, t)]]

\* generateMockData: the number of rows made up for the primary table
mockSize(primaryTable) ==
    LET table == toLowerCase(primaryTable)
    IN  CASE table = <<"b", "l", "o", "c", "k", "s">> -> 100
          [] table = <<"t", "r", "a", "n", "s", "a", "c", "t", "i", "o", "n", "s">> -> 500
          [] table = <<"e", "v", "e", "n", "t", "s">> -> 1000
          [] table = <<"c", "o", "n", "t", "r", "a", "c", "t", "s">> -> 200
          [] table = <<"s", "t", "o", "r", "a", "g", "e", "_", "d", "i", "f", "f", "s">> -> 800
          [] OTHER -> 0

\* the Map of QueryCache holds an entry, fresh or stale, under the key of query
held(c, query) == cacheIndex(c, hashOf(query)) # 0

\* what a lookup found: "hit", "expired" (a stale entry, deleted) or "miss"
lookupOf(hit, present) == IF hit THEN "hit" ELSE IF present THEN "expired" ELSE "miss"

\* QueryExecutionSandbox.executeQuery up to its first await, at time t:
\* [call, cache, history, usage]
SandboxBegin(call, c, history, usage, cfg, t) ==
    LET begin(limited, got, parsedQuery, present) ==
            LET missed == [usage EXCEPT !.cacheMisses = @ + 1]
                looked == [call EXCEPT
                               !.rate = IF call.userId # NoUser THEN "admitted" ELSE "skipped",
                               !.lookup = IF @ = "none"
                                          THEN lookupOf(got.entry # NoEntry, present) ELSE @]
            IN  IF ~limited.ok
                THEN [call |-> [call EXCEPT !.rate = "rejected",
                                            !.result = Failure("rate_limit", 0)],
                      cache |-> c, history |-> limited.history, usage |-> usage]
                ELSE IF got.entry # NoEntry
                THEN [call |-> [looked EXCEPT !.age = t - got.entry.timestamp,
                                              !.entryTime = got.entry.timestamp,
                                              !.result = Success(got.entry.result,
                                                                 got.entry.executionTime,
                                                                 TRUE)],
                      cache |-> got.cache, history |-> limited.history,
                      usage |-> [usage EXCEPT !.cacheHits = @ + 1]]
                ELSE IF ~parsedQuery.isValid
                THEN [call |-> [looked EXCEPT !.parsed = TRUE,
                                              !.result = Failure("validation", 0)],
                      cache |-> got.cache, history |-> limited.history, usage |-> missed]
                ELSE IF \E i \in DOMAIN parsedQuery.tables :
                            toLowerCase(parsedQuery.tables[i]) \notin cfg.allowedTables
                THEN [call |-> [looked EXCEPT !.parsed = TRUE,
                                              !.result = Failure("access_denied", 0)],
                      cache |-> got.cache, history |-> limited.history, usage |-> missed]
                ELSE [call |-> [looked EXCEPT !.parsed = TRUE,
                                              !.pc = "racing", !.timer = "armed",
                                              !.deadline = t + cfg.maxExecutionTime,
                                              !.storage = "pending",
                                              !.sentLimit = parsedQuery.limit],
                      cache |-> got.cache, history |-> limited.history, usage |-> missed]
    IN  begin(IF call.userId # NoUser
              THEN checkRateLimit(history, call.userId, cfg.rateLimitPerMinute, t)
              ELSE [ok |-> TRUE, history |-> history],
              QueryCache_get(c, call.query, t), parseOf(call.query), held(c, call.query))

\* executeWithLimits: what the promise resolves with when the data arrive
executeWithLimits(data, cfg) ==
    IF data.n > cfg.maxResultRows THEN slice(data, cfg.maxResultRows) ELSE data

\* executeQueryAgainstData: LIMIT applied to the rows found
executeQueryAgainstData(rows, limit) == IF NoLimit(limit) THEN rows ELSE slice(rows, limit)

\* QueryExecutionSandbox.executeQuery after executeWithLimits resolved with rows found at
\* time t, the clock reading tEvict inside queryCache.set: [call, cache, usage]
SandboxResolved(call, rows, c, usage, cfg, t, tEvict) ==
    LET resolved(result) ==
            [call |-> [call EXCEPT !.pc = "done", !.timer = "cleared",
                                   !.storage = "settled", !.maxRows = cfg.maxResultRows,
                                   !.entryTime = t, !.result = result],
             cache |-> QueryCache_set(c, call.query, result.data, result.executionTime, t,
                                      tEvict),
             usage |-> [usage EXCEPT !.executionTime = @ + result.executionTime,
                                     !.rowsProcessed = @ + result.rowCount]]
    IN  resolved(Success(executeWithLimits(executeQueryAgainstData(rows, call.sentLimit), cfg),
                         t - call.startTime, FALSE))

\* QueryExecutionSandbox.executeQuery after executeWithLimits rejected: the catch block
SandboxRejected(call, kind, t) ==
    [call EXCEPT !.pc = "done", !.result = Failure(kind, t - call.startTime),
                 !.timer = IF kind = "timeout" THEN "fired" ELSE "cleared",
                 !.storage = IF kind = "timeout" THEN @ ELSE "settled"]

-----------------------------------------------------------------------------
(* sqlSandboxService.ts: SQLSandboxService.                                *)

\* SQLSandboxService.executeQuery from the point where the executor's result is known,
\* at time t: [call, cache, stats]
ServiceFinish(call, c, st, t, tEvict) ==
    IF call.result.success
    THEN [call |-> IF call.useCache THEN [call EXCEPT !.entryTime = t] ELSE call,
          cache |-> IF call.useCache
                    THEN QueryCache_set(c, call.query, call.result.data,
                                        call.result.executionTime, t, tEvict)
                    ELSE c,
          stats |-> [st EXCEPT !.successfulQueries = @ + 1,
                               !.totalExecutionTime = @ + call.result.executionTime]]
    ELSE [call |-> call, cache |-> c, stats |-> [st EXCEPT !.failedQueries = @ + 1]]

\* SQLSandboxService.executeQuery up to its first await across a macrotask, at time t:
\* [call, cache, history, usage, stats]
ServiceBegin(call, c, history, usage, st, cfg, pg, t) ==
    LET begin(validation, got, parsedQuery, present) ==
            LET counted == [st EXCEPT !.totalQueries = @ + 1]
                failed == [counted EXCEPT !.failedQueries = @ + 1]
                looked == IF call.useCache
                          THEN [call EXCEPT !.lookup = lookupOf(got.entry # NoEntry, present)]
                          ELSE call
                delegated(inner) ==
                    LET returned(finished) ==
                            [call |-> finished.call, cache |-> finished.cache,
                             history |-> inner.history, usage |-> inner.usage,
                             stats |-> finished.stats]
                    IN  IF inner.call.pc = "racing"
                        THEN [call |-> inner.call, cache |-> inner.cache,
                              history |-> inner.history, usage |-> inner.usage,
                              stats |-> counted]
                        ELSE returned(ServiceFinish(inner.call, inner.cache, counted, t, t))
            IN  IF ~validation.isValid
                THEN [call |-> [call EXCEPT !.result = Failure("validation", 0)],
                      cache |-> c, history |-> history, usage |-> usage, stats |-> failed]
                ELSE IF got.entry # NoEntry
                THEN [call |-> [looked EXCEPT !.age = t - got.entry.timestamp,
                                              !.entryTime = got.entry.timestamp,
                                              !.result = Success(got.entry.result,
                                                                 got.entry.executionTime,
                                                                 TRUE)],
                      cache |-> got.cache, history |-> history, usage |-> usage,
                      stats |-> [counted EXCEPT !.successfulQueries = @ + 1]]
                ELSE IF ~parsedQuery.isValid
                THEN [call |-> [looked EXCEPT !.parsed = TRUE,
                                              !.result = Failure("validation", 0)],
                      cache |-> got.cache, history |-> history, usage |-> usage,
                      stats |-> failed]
                ELSE IF pg
                THEN [call |-> [looked EXCEPT !.parsed = TRUE,
                                              !.via = "postgres", !.pc = "fetching",
                                              !.storage = "pending",
                                              !.sentLimit = IF NoLimit(parsedQuery.limit)
                                                            THEN Undefined
                                                            ELSE parsedQuery.limit],
                      cache |-> got.cache, history |-> history, usage |-> usage,
                      stats |-> counted]
                ELSE delegated(SandboxBegin([looked EXCEPT !.parsed = TRUE,
                                                           !.via = "sandbox"], got.cache,
                                            history, usage, cfg, t))
    IN  begin(validationOf(call.query),
              IF call.useCache THEN QueryCache_get(c, call.query, t)
              ELSE [cache |-> c, entry |-> NoEntry],
              parseOf(call.query), held(c, call.query))

\* executeMockQuery after the fetch failed: mockData[parsedQuery.tables[0]] || []
fallbackRows(query) ==
    LET tableName == parseOf(query).tables[1]
    IN  IF tableName \in {<<"b", "l", "o", "c", "k", "s">>, <<"t", "r", "a", "n", "s", "a", "c", "t", "i", "o", "n", "s">>, <<"e", "v", "e", "n", "t", "s">>} THEN Rows(0, 2) ELSE Rows(0, 0)

\* executeAgainstPostgres once executeMockQuery returned data at time t
PostgresResolved(call, data, t) ==
    [call EXCEPT !.pc = "done", !.storage = "settled",
                 !.result = Success(data, t - call.startTime, FALSE)]

-----------------------------------------------------------------------------
(* queryExecutionRoutes.ts and sqlQueryEngine.ts: POST /api/v1/query/execute *)

RATE_LIMIT_WINDOW == 60 * 1000

\* 100 in the source (createRateLimitMiddleware); scaled so that the quota is reached
RATE_LIMIT_MAX_REQUESTS == 2

\* rateLimitStore.get(userId) of a user never seen
NoWindow == [count |-> 0, resetTime |-> 0 - 1]

\* the middleware made by createRateLimitMiddleware at time t: [next, store]
rateLimit(store, userId, t) ==
    LET userLimit == store[userId]
    IN  IF userLimit = NoWindow \/ t > userLimit.resetTime
        THEN [next |-> TRUE,
              store |-> [store EXCEPT ![userId] =
                                          [count |-> 1, resetTime |-> t + RATE_LIMIT_WINDOW]]]
        ELSE IF userLimit.count >= RATE_LIMIT_MAX_REQUESTS
        THEN [next |-> FALSE, store |-> store]
        ELSE [next |-> TRUE, store |-> [store EXCEPT ![userId].count = @ + 1]]

\* SQLQueryEngine.executeQuery up to "await this.validateQuery", at time t: [call, cache]
EngineBegin(call, ec, t) ==
    LET begin(got) ==
            LET looked == [call EXCEPT
                               !.lookup = lookupOf(got.hit, engineIndex(ec, call.query) # 0)]
            IN  IF ~call.useCache
                THEN [call |-> [call EXCEPT !.pc = "validating"], cache |-> ec]
                ELSE IF got.hit
                THEN [call |-> [looked EXCEPT !.age = t - got.timestamp,
                                              !.entryTime = got.timestamp,
                                              !.result = got.result],
                      cache |-> got.cache]
                ELSE [call |-> [looked EXCEPT !.pc = "validating"], cache |-> got.cache]
    IN  begin(getCachedResult(ec, call.query, t))

\* the LIMIT that the storage applies to a statement, Undefined if it has none
statementLimit(sql) ==
    LET tokens == tokenize(normalizeQuery(sql))
        at == {k \in 1..(Len(tokens) - 1) :
                  tokens[k] = <<"L", "I", "M", "I", "T">> /\ parseInt(tokens[k + 1]) # NaN}
    IN  IF at = {} THEN Undefined
        ELSE parseInt(tokens[(CHOOSE k \in at : \A j \in at : j <= k) + 1])

\* an executeQuery that goes on whatever validateQuery returned
EngineValidated_ignoresErrors(call, timeout, t) ==
    [call EXCEPT !.catalog = Len(extractTableNames(call.query)),
                 !.pc = "racing", !.timer = "armed", !.deadline = t + timeout,
                 !.storage = "pending",
                 !.sentLimit = statementLimit(addLimitToQuery(call.query, call.maxRows))]

\* SQLQueryEngine.executeQuery once validateQuery returned, at time t, with the time limit
\* timeout
EngineValidated(call, timeout, t) ==
    LET checked == [call EXCEPT !.catalog = Len(extractTableNames(call.query))]
    IN  IF ~safetyOf(call.query).isValid
        THEN [checked EXCEPT !.pc = "done",
                             !.result = Failure("validation", t - call.startTime)]
        ELSE [checked EXCEPT !.pc = "racing", !.timer = "armed", !.deadline = t + timeout,
                             !.storage = "pending",
                             !.sentLimit = statementLimit(addLimitToQuery(call.query,
                                                                           call.maxRows))]

\* SQLQueryEngine.executeQuery once Promise.race resolved with rows at time t: [call, cache]
EngineResolved(call, rows, ec, t) ==
    LET executionTime == t - call.startTime
        result == Success(rows, executionTime, FALSE)
        caching == call.useCache /\ executionTime < 5000
    IN  [call |-> [call EXCEPT !.pc = "done", !.storage = "settled", !.result = result,
                               !.entryTime = IF caching THEN t ELSE @],
         cache |-> IF caching THEN cacheResult(ec, call.query, result, t) ELSE ec]

\* SQLQueryEngine.executeQuery once Promise.race rejected: the catch block rethrows
EngineRejected(call, kind, t) ==
    [call EXCEPT !.pc = "done", !.result = Failure(kind, t - call.startTime),
                 !.timer = IF kind = "engine_timeout" THEN "fired" ELSE @,
                 !.storage = IF kind = "engine_timeout" THEN @ ELSE "settled"]

-----------------------------------------------------------------------------
(* Bounds and inputs.                                                      *)

\* executeQuery calls per behaviour
MaxCalls == 2

\* clock advances per behaviour
MaxTicks == 2

\* rateLimitPerMinute handed to the QueryExecutionSandbox constructor: 1..MaxQuota
MaxQuota == 1

\* userId of a browser call
UserIds == {"u1", "u2"}

\* x-user-id of a request, "anonymous" when the header is absent
Requesters == {"anonymous", "u1"}

\* timeout of a request (1000..30000, 10000 when absent)
Timeout == 10000

-----------------------------------------------------------------------------
(* Actions.                                                                *)

\* the user has used up the quota of the current minute
quotaUsed(userId) ==
    /\ userId # NoUser
    /\ Len(SelectSeq(executionHistory[userId], LAMBDA time : now - time < 60000))
          >= config.rateLimitPerMinute

\* the number of the next entry or return
stamp == Len(calls) + Cardinality({i \in DOMAIN calls : calls[i].ended # 0}) + 1

\* a call, numbered, on entering and on returning
Entered(call) ==
    [call EXCEPT !.began = stamp, !.ended = IF call.pc = "done" THEN stamp ELSE 0]

Returned(call) == [call EXCEPT !.ended = IF call.pc = "done" THEN stamp ELSE 0]

\* querySandbox.executeQuery(query, userId)
Sandbox_executeQuery(query, userId) ==
    /\ program = "sandbox"
    /\ \E r \in {SandboxBegin([NewCall("sandbox", query, userId, TRUE,
                                       config.maxResultRows, now)
                                   EXCEPT !.overQuota = quotaUsed(userId)],
                              cache, executionHistory, resourceUsage, config, now)} :
          /\ calls' = Append(calls, Entered([r.call EXCEPT !.touched =
                                                 r.cache # cache \/ r.usage # resourceUsage]))
          /\ cache' = r.cache
          /\ executionHistory' = r.history
          /\ resourceUsage' = r.usage
    /\ UNCHANGED <<now, ticks, program, engineCache, config, stats, postgres,
                   rateLimitStore, last, text, outcome>>
    /\ UNCHANGED <<indexer, ledger, errorLog>>

\* sqlSandboxService.executeQuery(query, { userId, useCache, maxRows })
Service_executeQuery(query, userId, useCache, maxRows) ==
    /\ program = "service"
    /\ \E r \in {ServiceBegin([NewCall("service", query, userId, useCache, maxRows, now)
                                   EXCEPT !.overQuota = quotaUsed(userId)],
                              cache, executionHistory, resourceUsage, stats, config,
                              postgres, now)} :
          /\ calls' = Append(calls, Entered([r.call EXCEPT !.touched =
                                                 r.cache # cache \/ r.usage # resourceUsage]))
          /\ cache' = r.cache
          /\ executionHistory' = r.history
          /\ resourceUsage' = r.usage
          /\ stats' = r.stats
    /\ UNCHANGED <<now, ticks, program, engineCache, config, postgres, rateLimitStore,
                   last, text, outcome>>
    /\ UNCHANGED <<indexer, ledger, errorLog>>

\* POST /api/v1/query/execute with body { query, options: { useCache, maxRows } }; when
\* executeQuery returns a result, here from the cache, the handler logs the execution
Route_execute(query, userId, useCache, maxRows) ==
    /\ program = "server"
    /\ \E limited \in {rateLimit(rateLimitStore, userId, now)},
          call \in {NewCall("engine", query, userId, useCache, maxRows, now)} :
          /\ rateLimitStore' = limited.store
          /\ IF limited.next
             THEN \E r \in {EngineBegin([call EXCEPT !.rate = "admitted"], engineCache,
                                        now)} :
                     /\ calls' = Append(calls, Entered([r.call EXCEPT
                                                            !.touched = r.cache # engineCache,
                                                            !.logged = r.call.pc = "done"]))
                     /\ engineCache' = r.cache
             ELSE /\ calls' = Append(calls, Entered(
                                  [call EXCEPT !.rate = "rejected",
                                               !.result = Failure("too_many_requests", 0)]))
                  /\ UNCHANGED engineCache
    /\ UNCHANGED <<now, ticks, program, cache, executionHistory, resourceUsage, config,
                   stats, postgres, last, text, outcome>>
    /\ UNCHANGED <<indexer, ledger, errorLog>>

\* validateQuery of call i returns
EngineValidates(i) ==
    /\ calls[i].pc = "validating"
    /\ calls' = [calls EXCEPT ![i] = Returned(EngineValidated(@, Timeout, now))]
    /\ UNCHANGED <<now, ticks, program, engineCache, cache, executionHistory,
                   resourceUsage, config, stats, postgres, rateLimitStore, last, text,
                   outcome>>
    /\ UNCHANGED <<indexer, ledger, errorLog>>

\* the rows that a storage holding avail rows returns for the statement of call
rowsFor(i, call, avail) ==
    IF call.via = "sandbox"
    THEN Rows(i, Min(avail, mockSize(parseOf(call.query).tables[1])))
    ELSE IF call.sentLimit = Undefined THEN Rows(i, avail)
    ELSE Rows(i, Min(avail, call.sentLimit))

\* the executor of browser call i returned inner at time t: querySandbox.executeQuery
\* returns it, sqlSandboxService.executeQuery goes on with it
ExecutorReturns(i, inner, innerCache, t) ==
    IF inner.api = "service"
    THEN \E f \in {ServiceFinish(inner, innerCache, stats, t, t)} :
            /\ calls' = [calls EXCEPT ![i] = Returned(f.call)]
            /\ cache' = f.cache
            /\ stats' = f.stats
    ELSE /\ calls' = [calls EXCEPT ![i] = Returned(inner)]
         /\ cache' = innerCache
         /\ UNCHANGED stats

\* the storage completes the statement of call i; d is the clock advance seen by
\* evictLeastRecentlyUsed, which matters only when the cache is full
StorageResolves(i, avail, d) ==
    /\ calls[i].storage = "pending"
    /\ d = 1 => calls[i].pc # "done" /\ calls[i].via # "engine" /\ Len(cache) >= maxCacheSize
    /\ \E call \in {calls[i]}, rows \in {rowsFor(i, calls[i], avail)} :
          IF call.pc = "done"
          THEN /\ calls' = [calls EXCEPT ![i].storage = "settled"]
               /\ UNCHANGED <<engineCache, cache, resourceUsage, stats>>
          ELSE IF call.via = "engine"
          THEN \E e \in {EngineResolved(call, rows, engineCache, now)} :
                  /\ calls' = [calls EXCEPT ![i] = Returned([e.call EXCEPT !.logged = TRUE])]
                  /\ engineCache' = e.cache
                  /\ UNCHANGED <<cache, resourceUsage, stats>>
          ELSE IF call.via = "sandbox"
          THEN \E s \in {SandboxResolved(call, rows, cache, resourceUsage, config, now,
                                         now + d)} :
                  /\ ExecutorReturns(i, s.call, s.cache, now + d)
                  /\ resourceUsage' = s.usage
                  /\ UNCHANGED engineCache
          ELSE /\ ExecutorReturns(i, PostgresResolved(call, rows, now), cache, now + d)
               /\ UNCHANGED <<engineCache, resourceUsage>>
    /\ now' = now + d
    /\ UNCHANGED <<ticks, program, executionHistory, config, postgres, rateLimitStore,
                   last, text, outcome>>
    /\ UNCHANGED <<indexer, ledger, errorLog>>

\* the storage fails the statement of call i
StorageRejects(i) ==
    /\ calls[i].storage = "pending"
    /\ \E call \in {calls[i]} :
          IF call.pc = "done"
          THEN /\ calls' = [calls EXCEPT ![i].storage = "settled"]
               /\ UNCHANGED <<cache, stats>>
          ELSE IF call.via = "engine"
          THEN /\ calls' = [calls EXCEPT ![i] =
                                Returned(EngineRejected(@, "storage_error", now))]
               /\ UNCHANGED <<cache, stats>>
          ELSE IF call.via = "sandbox"
          THEN ExecutorReturns(i, SandboxRejected(call, "storage_error", now), cache, now)
          ELSE ExecutorReturns(i, PostgresResolved(call, fallbackRows(call.query), now),
                               cache, now)
    /\ UNCHANGED <<now, ticks, program, engineCache, executionHistory, resourceUsage,
                   config, postgres, rateLimitStore, last, text, outcome>>
    /\ UNCHANGED <<indexer, ledger, errorLog>>

\* a timer whose callback rejects the call whether or not it has returned
TimerFires_afterReturn(i) ==
    /\ calls[i].timer = "armed"
    /\ now >= calls[i].deadline
    /\ calls' = [calls EXCEPT ![i] =
                     Returned(IF @.via = "engine" THEN EngineRejected(@, "engine_timeout", now)
                              ELSE SandboxRejected(@, "timeout", now))]
    /\ UNCHANGED <<now, ticks, program, engineCache, cache, executionHistory,
                   resourceUsage, config, stats, postgres, rateLimitStore, last, text,
                   outcome>>
    /\ UNCHANGED <<indexer, ledger, errorLog>>

\* the setTimeout callback of call i runs
TimerFires(i) ==
    /\ calls[i].timer = "armed"
    /\ now >= calls[i].deadline
    /\ \E call \in {calls[i]} :
          IF call.pc = "done"
          THEN /\ calls' = [calls EXCEPT ![i].timer = "fired"]
               /\ UNCHANGED <<cache, stats>>
          ELSE IF call.via = "engine"
          THEN /\ calls' = [calls EXCEPT ![i] =
                                Returned(EngineRejected(@, "engine_timeout", now))]
               /\ UNCHANGED <<cache, stats>>
          ELSE ExecutorReturns(i, SandboxRejected(call, "timeout", now), cache, now)
    /\ UNCHANGED <<now, ticks, program, engineCache, executionHistory, resourceUsage,
                   config, postgres, rateLimitStore, last, text, outcome>>
    /\ UNCHANGED <<indexer, ledger, errorLog>>

\* the setInterval callback of QueryCache runs and finds stale entries
Cleanup ==
    /\ program \in {"sandbox", "service"}
    /\ cache' = cleanup(cache, now)
    /\ cache' # cache
    /\ UNCHANGED <<now, ticks, program, engineCache, executionHistory, resourceUsage,
                   config, stats, postgres, rateLimitStore, calls, last, text, outcome>>
    /\ UNCHANGED <<indexer, ledger, errorLog>>

\* time passes
Tick(d) ==
    /\ now' = now + d
    /\ ticks' = ticks + 1
    /\ UNCHANGED <<program, engineCache, cache, executionHistory, resourceUsage, config,
                   stats, postgres, rateLimitStore, calls, last, text, outcome>>
    /\ UNCHANGED <<indexer, ledger, errorLog>>

-----------------------------------------------------------------------------
(* The specification of the three entry points: the route of the server    *)
(* (program = "server"), querySandbox (program = "sandbox") and            *)
(* sqlSandboxService (program = "service") of the browser.                 *)

NoOp == [op |-> "none"]

NoOutcome == [op |-> "none"]

\* syncInterval when no interval is set
NoTimer == 0

\* StarkNetIndexer and StarkNetDataSync as constructed: not running, no interval, no timer
\* alive, the status of StarkNetDataSync, no sync pass begun, no startSync call made.
\* stopped: stopSync has returned and startSync was not called since; failed: the number
\* of the last periodic pass that failed; running: the timers whose callbacks have a pass
\* in flight, one element for each such pass
NewIndexer ==
    [isRunning |-> FALSE, syncInterval |-> NoTimer, timers |-> {},
     status |-> [isConnected |-> FALSE, error |-> FALSE], passes |-> 0, starts |-> <<>>,
     stopped |-> FALSE, failed |-> 0, running |-> <<>>]

defaultConfig ==
    [maxExecutionTime |-> 30000, maxResultRows |-> 10000,
     allowedTables |-> Range(STARKNET_SCHEMAS), rateLimitPerMinute |-> 60]

\* the SandboxConfig of a QueryExecutionSandbox constructed with a partial config
Configs ==
    {[defaultConfig EXCEPT !.rateLimitPerMinute = q, !.maxResultRows = r] :
        q \in 1..MaxQuota, r \in {2, 10000}}

InitShared ==
    /\ now = 0
    /\ ticks = 0
    /\ engineCache = <<>>
    /\ cache = <<>>
    /\ executionHistory = [u \in UserIds |-> <<>>]
    /\ resourceUsage = [executionTime |-> 0, rowsProcessed |-> 0, cacheHits |-> 0,
                        cacheMisses |-> 0]
    /\ stats = [totalQueries |-> 0, successfulQueries |-> 0, failedQueries |-> 0,
                totalExecutionTime |-> 0]
    /\ rateLimitStore = [u \in Requesters |-> NoWindow]
    /\ calls = <<>>
    /\ last = NoOp
    /\ text = <<>>
    /\ outcome = NoOutcome
    /\ indexer = NewIndexer
    /\ errorLog = [log |-> <<>>, count |-> 0]
    /\ ledger = [blocks |-> <<>>, transactions |-> <<>>, events |-> <<>>, contracts |-> <<>>,
                 emitted |-> <<>>,
                 status |-> [isConnected |-> FALSE, currentBlock |-> 0, lastSyncedBlock |-> 0,
                             syncProgress |-> [num |-> 0, den |-> 1]],
                 fromBlock |-> 0, head |-> 0, ops |-> 0,
                 last |-> [op |-> "none", from |-> 0, to |-> 0, fault |-> [block |-> 0, step |-> "none", tx |-> 0], had |-> {},
                           attempted |-> <<>>, raised |-> FALSE]]

Init ==
    /\ InitShared
    /\ \/ program = "server" /\ config = defaultConfig /\ postgres = FALSE
       \/ program = "sandbox" /\ config \in Configs /\ postgres = FALSE
       \/ program = "service" /\ config \in Configs /\ postgres \in BOOLEAN

Next ==
    \/ \E query \in Queries, userId \in {"u1"} :
          Len(calls) < MaxCalls /\ Sandbox_executeQuery(query, userId)
    \/ \E query \in Queries, userId \in {"u1"}, useCache \in BOOLEAN,
          maxRows \in {1000} :
          Len(calls) < MaxCalls /\ Service_executeQuery(query, userId, useCache, maxRows)
    \/ \E query \in Queries, userId \in {"anonymous"}, useCache \in BOOLEAN,
          maxRows \in {1000} :
          Len(calls) < MaxCalls /\ Route_execute(query, userId, useCache, maxRows)
    \/ \E i \in DOMAIN calls : EngineValidates(i)
    \/ \E i \in DOMAIN calls, avail \in {1500}, d \in {0, 1} : StorageResolves(i, avail, d)
    \/ \E i \in DOMAIN calls : StorageRejects(i)
    \/ \E i \in DOMAIN calls : TimerFires(i)
    \/ Cleanup
    \/ \E d \in {4999, 60000, maxCacheAge} : ticks < MaxTicks /\ Tick(d)

Spec == Init /\ [][Next]_vars

-----------------------------------------------------------------------------
(* The validators and the parser applied to one text (program = "text").   *)

\* a text is an opening, a word and an ending: the words are the blocked
\* keywords in capitals and in small letters, and two harmless words
Texts ==
    LET Openings == {<<>>, <<"s", "e", "l", "e", "c", "t", " ", "*", " ", "f", "r", "o", "m", " ", "b", "l", "o", "c", "k", "s", ";", " ">>, <<"s", "e", "l", "e", "c", "t", " ", "*", " ", "f", "r", "o", "m", " ", "b", "l", "o", "c", "k", "s", " ", "w", "h", "e", "r", "e", " ", "a", " ", "=", " ", "'">>}
        Endings == {<<>>, <<" ", "t", "a", "b", "l", "e", " ", "b", "l", "o", "c", "k", "s">>, <<" ", "a", "l", "l", " ", "o", "n", " ", "b", "l", "o", "c", "k", "s">>, <<"(", "1", ")">>, <<"d", "_", "a", "t", " ", "f", "r", "o", "m", " ", "b", "l", "o", "c", "k", "s">>}
        Words == Range(DANGEROUS_KEYWORDS) \cup {toLowerCase(k) : k \in Range(DANGEROUS_KEYWORDS)} \cup {<<"s", "e", "l", "e", "c", "t">>, <<"b", "l", "o", "c", "k", "s">>}
    IN  {a \o w \o z : a \in Openings, w \in Words, z \in Endings}

InitText ==
    /\ InitShared
    /\ program = "text"
    /\ config = defaultConfig
    /\ postgres = FALSE

\* the caller hands t to errorHandler.validateQuery and to SQLQueryEngine.validateQuery
ValidateText(t) ==
    /\ program = "text"
    /\ outcome = NoOutcome
    /\ text' = t
    /\ outcome' = [op |-> "validate", handler |-> QueryErrorHandler_validateQuery(t),
                   engine |-> SQLQueryEngine_validateQuery(t)]
    /\ UNCHANGED <<now, ticks, program, engineCache, cache, executionHistory,
                   resourceUsage, config, stats, postgres, rateLimitStore, calls, last>>
    /\ UNCHANGED <<indexer, ledger, errorLog>>

\* the texts handed to the parser: a beginning (the first token and the columns), the
\* tables, and the clauses that follow them
ParseTexts ==
    LET Heads ==
            {<<"s", "e", "l", "e", "c", "t", " ", "*">>, <<"s", "e", "l", "e", "c", "t", " ", "b", "l", "o", "c", "k", "_", "n", "u", "m", "b", "e", "r", ",", " ", "b", "l", "o", "c", "k", "_", "h", "a", "s", "h">>, <<"e", "x", "p", "l", "a", "i", "n", " ", "*">>, <<"t", "r", "u", "n", "c", "a", "t", "e">>,
             <<"d", "r", "o", "p", " ", "*">>, <<"d", "e", "l", "e", "t", "e">>, <<>>}
        Sources ==
            {<<>>, <<" ", "f", "r", "o", "m", " ", "b", "l", "o", "c", "k", "s">>, <<" ", "f", "r", "o", "m", " ", "t", "r", "a", "n", "s", "a", "c", "t", "i", "o", "n", "s">>, <<" ", "f", "r", "o", "m", " ", "u", "s", "e", "r", "s">>,
             <<" ", "f", "r", "o", "m", " ", "b", "l", "o", "c", "k", "s", ",", " ", "t", "r", "a", "n", "s", "a", "c", "t", "i", "o", "n", "s", ",", " ", "e", "v", "e", "n", "t", "s">>,
             <<" ", "f", "r", "o", "m", " ", "b", "l", "o", "c", "k", "s", " ", "i", "n", "n", "e", "r", " ", "j", "o", "i", "n", " ", "e", "v", "e", "n", "t", "s", " ", "o", "n", " ", "a", " ", "=", " ", "b", " ", "i", "n", "n", "e", "r", " ", "j", "o", "i", "n", " ", "t", "r", "a", "n", "s", "a", "c", "t", "i", "o", "n", "s", " ", "o", "n", " ", "c", " ", "=", " ", "d">>,
             <<" ", "f", "r", "o", "m", " ", "b", "l", "o", "c", "k", "s", " ", "j", "o", "i", "n", " ", "e", "v", "e", "n", "t", "s", " ", "o", "n", " ", "a", " ", "=", " ", "b", " ", "j", "o", "i", "n", " ", "t", "r", "a", "n", "s", "a", "c", "t", "i", "o", "n", "s", " ", "o", "n", " ", "c", " ", "=", " ", "d">>,
             <<" ", "f", "r", "o", "m", " ", "b", "l", "o", "c", "k", "s", " ", "i", "n", "n", "e", "r", " ", "j", "o", "i", "n", " ", "u", "s", "e", "r", "s", " ", "o", "n", " ", "a", " ", "=", " ", "b">>}
        Clauses ==
            {<<>>, <<" ", "w", "h", "e", "r", "e", " ", "c", "1", " ", "=", " ", "1", " ", "a", "n", "d", " ", "c", "2", " ", "=", " ", "2", " ", "a", "n", "d", " ", "c", "3", " ", "=", " ", "3", " ", "a", "n", "d", " ", "c", "4", " ", "=", " ", "4">>,
             <<" ", "o", "r", "d", "e", "r", " ", "b", "y", " ", "t", "i", "m", "e", "s", "t", "a", "m", "p", " ", "d", "e", "s", "c", " ", "l", "i", "m", "i", "t", " ", "1", "0">>, <<" ", "o", "r", "d", "e", "r", " ", "b", "y", " ", "t", "i", "m", "e", "s", "t", "a", "m", "p", " ", "d", "e", "s", "c", " ", "l", "i", "m", "i", "t", " ", "1", "0", "0", "0", "0">>,
             <<" ", "l", "i", "m", "i", "t", " ", "1", "0">>, <<" ", "l", "i", "m", "i", "t", " ", "1", "0", "0", "0", "1">>, <<" ", "g", "r", "o", "u", "p", " ", "b", "y", " ", "a", " ", "b", " ", "c", " ", "d", " ", "e", " ", "f", " ", "g", " ", "h", " ", "i", " ", "j", " ", "k", " ", "l", " ", "m">>}
    IN  {h \o f \o c : h \in Heads, f \in Sources, c \in Clauses}

\* the caller hands t to sqlParser.parse, which returns a plan: its body is one try block
\* whose catch turns whatever is thrown into an error of the plan
ParseText(t) ==
    /\ program = "text"
    /\ outcome = NoOutcome
    /\ text' = t
    /\ outcome' = [op |-> "parse", plan |-> parse(t)]
    /\ UNCHANGED <<now, ticks, program, engineCache, cache, executionHistory,
                   resourceUsage, config, stats, postgres, rateLimitStore, calls, last>>
    /\ UNCHANGED <<indexer, ledger, errorLog>>

NextText ==
    \/ \E t \in Texts : ValidateText(t)
    \/ \E t \in ParseTexts : ParseText(t)

SpecText == InitText /\ [][NextText]_vars

\* the text holds a blocked keyword somewhere, in any letter case
holdsBlockedKeyword(t) ==
    \E k \in DOMAIN DANGEROUS_KEYWORDS : includes(toUpperCase(t), DANGEROUS_KEYWORDS[k])

\* C10: whenever a text holding one of the thirteen blocked keywords has been validated,
\* both validators answered isValid = false, the one of the error handler with an entry of
\* type PERMISSION_ERROR or VALIDATION_ERROR.
C10_BlockedKeywordRejected ==
    (outcome.op = "validate" /\ holdsBlockedKeyword(text))
        => /\ ~outcome.handler.isValid
           /\ \E e \in DOMAIN outcome.handler.errors :
                 outcome.handler.errors[e] \in {"PERMISSION_ERROR", "VALIDATION_ERROR"}
           /\ ~outcome.engine.isValid

-----------------------------------------------------------------------------
(* The two caches used directly: QueryCache (program = "cache") and the    *)
(* cache of SQLQueryEngine (program = "engineCache").                      *)

\* operations on the cache per behaviour
MaxOps == 4

\* the last two differ after lower-casing and trimming and have the same hash:
\* 97 * 31 + 122 = 98 * 31 + 91
CacheTexts == {<<"a">>, <<"b">>, <<"c">>, <<"a", "z">>, <<"b", "[">>}

InitCache ==
    /\ InitShared
    /\ program \in {"cache", "engineCache"}
    /\ config = defaultConfig
    /\ postgres = FALSE

\* queryCache.get(query)
Cache_get(query) ==
    /\ program = "cache"
    /\ Len(calls) < MaxOps
    /\ \E got \in {QueryCache_get(cache, query, now)} :
          /\ cache' = got.cache
          /\ last' = [op |-> "get", query |-> query, entry |-> got.entry, before |-> cache]
    /\ calls' = Append(calls, "get")
    /\ UNCHANGED <<now, ticks, program, engineCache, executionHistory, resourceUsage,
                   config, stats, postgres, rateLimitStore, text, outcome>>
    /\ UNCHANGED <<indexer, ledger, errorLog>>

\* queryCache.set(query, result, executionTime); d is the clock advance between the
\* Date.now() of set and the Date.now() of evictLeastRecentlyUsed
Cache_set(query, result, d) ==
    /\ program = "cache"
    /\ Len(calls) < MaxOps
    /\ cache' = QueryCache_set(cache, query, result, 0, now, now + d)
    /\ last' = [op |-> "set", query |-> query, entry |-> NoEntry, before |-> cache]
    /\ calls' = Append(calls, "set")
    /\ now' = now + d
    /\ UNCHANGED <<ticks, program, engineCache, executionHistory, resourceUsage, config,
                   stats, postgres, rateLimitStore, text, outcome>>
    /\ UNCHANGED <<indexer, ledger, errorLog>>

\* when the text was last read from or written to the cache of SQLQueryEngine, -1 if never
accessedAt(query) ==
    IF "accessed" \in DOMAIN last THEN last.accessed[query] ELSE 0 - 1

\* SQLQueryEngine.getCachedResult(query)
Engine_getCachedResult(query) ==
    /\ program = "engineCache"
    /\ Len(calls) < MaxOps
    /\ \E got \in {getCachedResult(engineCache, query, now)} :
          /\ engineCache' = got.cache
          /\ last' = [op |-> "getCachedResult", query |-> query, before |-> engineCache,
                      accessed |-> [q \in CacheTexts |->
                                       IF q = query /\ got.hit THEN now ELSE accessedAt(q)]]
    /\ calls' = Append(calls, "getCachedResult")
    /\ UNCHANGED <<now, ticks, program, cache, executionHistory, resourceUsage, config,
                   stats, postgres, rateLimitStore, text, outcome>>
    /\ UNCHANGED <<indexer, ledger, errorLog>>

\* SQLQueryEngine.cacheResult(query, result)
Engine_cacheResult(query, result) ==
    /\ program = "engineCache"
    /\ Len(calls) < MaxOps
    /\ engineCache' = cacheResult(engineCache, query, result, now)
    /\ last' = [op |-> "cacheResult", query |-> query, before |-> engineCache,
                accessed |-> [q \in CacheTexts |-> IF q = query THEN now ELSE accessedAt(q)]]
    /\ calls' = Append(calls, "cacheResult")
    /\ UNCHANGED <<now, ticks, program, cache, executionHistory, resourceUsage, config,
                   stats, postgres, rateLimitStore, text, outcome>>
    /\ UNCHANGED <<indexer, ledger, errorLog>>

NextCache ==
    \/ \E query \in CacheTexts : Cache_get(query)
    \/ \E query \in CacheTexts, d \in {0, 1} : Cache_set(query, Rows(1, 1), d)
    \/ \E query \in CacheTexts : Engine_getCachedResult(query)
    \/ \E query \in CacheTexts : Engine_cacheResult(query, Success(Rows(1, 1), 0, FALSE))
    \/ \E d \in {1, maxCacheAge} : ticks < MaxTicks /\ Tick(d)

SpecCache == InitCache /\ [][NextCache]_vars

\* the keys of the entries of a QueryCache
keysOf(c) == {c[i].queryHash : i \in DOMAIN c}

\* the texts of the entries of the cache of SQLQueryEngine
textsOf(c) == {c[i].query : i \in DOMAIN c}

\* C3: after an insertion that found the cache full and added a new key, exactly one of
\* the entries stored before is gone, and no stored entry was accessed (read or written)
\* earlier than the one that is gone; in QueryCache and in the cache of SQLQueryEngine.
C3_EvictsLeastRecentlyUsed ==
    /\ (last.op = "set" /\ Len(last.before) >= maxCacheSize
                        /\ hashOf(last.query) \notin keysOf(last.before))
           => \E i \in DOMAIN last.before :
                 /\ keysOf(cache) = (keysOf(last.before) \cup {hashOf(last.query)})
                                        \ {last.before[i].queryHash}
                 /\ \A j \in DOMAIN last.before :
                       last.before[i].lastAccessed <= last.before[j].lastAccessed
    /\ (last.op = "cacheResult" /\ Len(last.before) >= engineCacheLimit
                                /\ last.query \notin textsOf(last.before))
           => \E i \in DOMAIN last.before :
                 /\ textsOf(engineCache) = (textsOf(last.before) \cup {last.query})
                                               \ {last.before[i].query}
                 /\ \A j \in DOMAIN last.before :
                       accessedAt(last.before[i].query) <= accessedAt(last.before[j].query)

-----------------------------------------------------------------------------
(* The two rate limiters under repeated requests: the middleware of the    *)
(* route (program = "server") and checkRateLimit (program = "sandbox").    *)

\* requests per behaviour
MaxRequests == 4

\* clock advances per behaviour of the rate limiters
MaxRateTicks == 3

InitRate ==
    /\ InitShared
    /\ postgres = FALSE
    /\ \/ program = "server" /\ config = defaultConfig
       \/ /\ program = "sandbox"
          /\ config \in {[defaultConfig EXCEPT !.rateLimitPerMinute = q] : q \in 1..MaxQuota}

NextRate ==
    \/ \E userId \in UserIds :
          Len(calls) < MaxRequests /\ Sandbox_executeQuery(SelectBlocks, userId)
    \/ \E userId \in Requesters :
          Len(calls) < MaxRequests /\ Route_execute(SelectBlocks, userId, TRUE, 1000)
    \/ \E d \in {1, RATE_LIMIT_WINDOW - 1} : ticks < MaxRateTicks /\ Tick(d)

SpecRate == InitRate /\ [][NextRate]_vars

\* the requests of the user of request j that were admitted before it, from request w on
admittedBefore(j, w) ==
    {i \in w..(j - 1) : calls[i].userId = calls[j].userId /\ calls[i].rate = "admitted"}

\* the last request before j of the same user, 0 if there is none
previousOf(j) ==
    LET earlier == {i \in 1..(j - 1) : calls[i].userId = calls[j].userId}
    IN  IF earlier = {} THEN 0 ELSE CHOOSE i \in earlier : \A k \in earlier : k <= i

RECURSIVE openerOf(_)
\* the request that opened the one-minute window in which request j arrived: j itself if
\* it is the first of its user or arrived after the window before it had ended
openerOf(j) ==
    IF previousOf(j) = 0 THEN j
    ELSE IF calls[j].startTime > calls[openerOf(previousOf(j))].startTime + 60000 THEN j
    ELSE openerOf(previousOf(j))

\* C6: a request is rejected by its rate limiter exactly when the user's admitted
\* requests of the current window already fill the quota: in checkRateLimit the window is
\* the minute before the request, in the middleware the minute opened by the first request
\* after the window before; rejected requests count in neither, so the user is admitted
\* again as soon as the admitted ones have left the window.
C6_QuotaPerWindow ==
    \A j \in DOMAIN calls :
        /\ calls[j].api = "sandbox"
              => (calls[j].rate = "rejected"
                    <=> Cardinality({i \in admittedBefore(j, 1) :
                                        calls[j].startTime - calls[i].startTime < 60000})
                            >= config.rateLimitPerMinute)
        /\ calls[j].api = "engine"
              => (calls[j].rate = "rejected"
                    <=> /\ openerOf(j) # j
                        /\ Cardinality(admittedBefore(j, openerOf(j)))
                              >= RATE_LIMIT_MAX_REQUESTS)

\* a user of checkRateLimit was admitted, then rejected within the minute, then admitted
\* again once the minute had passed
C6_Witness ==
    \E i, j, k \in DOMAIN calls :
        /\ i < j /\ j < k
        /\ calls[i].api = "sandbox"
        /\ calls[i].userId = calls[j].userId /\ calls[j].userId = calls[k].userId
        /\ calls[i].rate = "admitted" /\ calls[j].rate = "rejected"
        /\ calls[k].rate = "admitted"
        /\ calls[j].startTime - calls[i].startTime < 60000
        /\ calls[j].result.kind = "rate_limit"

-----------------------------------------------------------------------------
(* Properties of executeQuery, stated over the calls of Spec.              *)

\* the keys of the entries of a QueryCache
entryKeys(c) == {c[k].queryHash : k \in DOMAIN c}

\* call i returned in the step just taken
returnsNow(i) ==
    /\ i \in DOMAIN calls'
    /\ calls'[i].pc = "done"
    /\ i \in DOMAIN calls => calls[i].pc # "done"

\* an entry for the text of call, written no earlier than the call began, holding its rows
freshEntry(call, c, ec) ==
    IF call.api = "engine"
    THEN \E k \in DOMAIN ec : /\ ec[k].query = call.query
                              /\ ec[k].timestamp >= call.startTime
                              /\ ec[k].result.data = call.result.data
    ELSE \E k \in DOMAIN c : /\ c[k].queryHash = hashOf(call.query)
                             /\ c[k].timestamp >= call.startTime
                             /\ c[k].result = call.result.data

\* C1, as stated: no lookup returns an entry older than the TTL, and every call that
\* found the entry of its text expired goes to the storage and leaves a fresh entry for
\* the text when it returns.
C1_ExpiredEntryReplaced ==
    [][\A i \in DOMAIN calls' :
          /\ calls'[i].lookup = "hit" => calls'[i].age <= maxCacheAge
          /\ (returnsNow(i) /\ calls'[i].lookup = "expired")
                => /\ calls'[i].storage # "none"
                   /\ freshEntry(calls'[i], cache', engineCache')]_vars

\* C1: no lookup returns an entry older than the TTL, swept or not, and every call that
\* found the entry of its text expired and returns successfully (from SQLQueryEngine: in
\* less than 5000 ms) has gone to the storage, returns rows that are not from the cache
\* and leaves a fresh entry holding them.
C1_ExpiredEntryReplacedOnSuccess ==
    [][\A i \in DOMAIN calls' :
          /\ calls'[i].lookup = "hit" => calls'[i].age <= maxCacheAge
          /\ (/\ returnsNow(i) /\ calls'[i].lookup = "expired"
              /\ calls'[i].result.success
              /\ calls'[i].api = "engine" => calls'[i].result.executionTime < 5000)
                => /\ calls'[i].storage = "settled"
                   /\ ~calls'[i].result.fromCache
                   /\ freshEntry(calls'[i], cache', engineCache')]_vars

\* a call found the entry of its text expired, executed and left a fresh entry, with the
\* expired one not swept before
C1_Witness ==
    \E i \in DOMAIN calls :
        /\ calls[i].pc = "done" /\ calls[i].lookup = "expired"
        /\ calls[i].result.success /\ ~calls[i].result.fromCache
        /\ calls[i].storage = "settled"
        /\ freshEntry(calls[i], cache, engineCache)

\* call j is the call made next after call i returned, with the same text
madeNextAfter(i, j) ==
    /\ i # j
    /\ calls[i].query = calls[j].query /\ calls[i].api = calls[j].api
    /\ calls[i].useCache /\ calls[j].useCache
    /\ calls[i].pc = "done" /\ calls[j].began = calls[i].ended + 1

\* C2, as stated: the second of two calls with the same text and useCache = true, made
\* within the TTL of the first, returns fromCache = true and the data of the first.
C2_SecondCallFromCache ==
    \A i, j \in DOMAIN calls :
        (/\ madeNextAfter(i, j) /\ calls[j].pc = "done"
         /\ calls[j].startTime - calls[i].startTime < maxCacheAge)
            => /\ calls[j].result.fromCache
               /\ calls[j].result.data = calls[i].result.data

\* C2: when a call with useCache = true returned successfully and left its rows in the
\* cache, the call made next with the same text and useCache = true, admitted by the rate
\* limiter and made within the TTL of that entry, returns at once with fromCache = true and
\* the same data.
C2_SecondCallFromCacheAfterSuccess ==
    \A i, j \in DOMAIN calls :
        (/\ madeNextAfter(i, j)
         /\ calls[i].result.success /\ calls[i].entryTime >= 0
         /\ calls[j].rate # "rejected"
         /\ calls[j].startTime - calls[i].entryTime < maxCacheAge)
            => /\ calls[j].pc = "done" /\ calls[j].storage = "none"
               /\ calls[j].result.success /\ calls[j].result.fromCache
               /\ calls[j].result.data = calls[i].result.data

\* a call executed on the storage and the next call, later but within the TTL, got its rows
C2_Witness ==
    \E i, j \in DOMAIN calls :
        /\ madeNextAfter(i, j)
        /\ calls[i].storage = "settled" /\ ~calls[i].result.fromCache
        /\ calls[j].startTime > calls[i].entryTime
        /\ calls[j].startTime - calls[i].entryTime < maxCacheAge
        /\ calls[j].result.fromCache
        /\ calls[j].result.data = calls[i].result.data /\ calls[j].result.rowCount > 0

\* rows that the storage answered for a statement (the snapshot 0 stands for the rows
\* made up after a failed fetch)
answered(data) == data.ver >= 1

\* C4: every entry of either cache holds exactly the rows that a call with the entry's
\* text returned, successfully, at the time the entry bears, and these are rows the
\* storage answered for the statement; a call that failed validation, was denied, timed
\* out or failed on the storage has written none.
C4_OnlySuccessfulResultsCached ==
    /\ \A k \in DOMAIN cache :
          \E i \in DOMAIN calls :
              /\ calls[i].pc = "done" /\ calls[i].result.success
              /\ answered(cache[k].result)
              /\ hashOf(calls[i].query) = cache[k].queryHash
              /\ calls[i].result.data = cache[k].result
              /\ calls[i].entryTime = cache[k].timestamp
    /\ \A k \in DOMAIN engineCache :
          \E i \in DOMAIN calls :
              /\ calls[i].pc = "done" /\ calls[i].result.success
              /\ calls[i].query = engineCache[k].query
              /\ calls[i].result.data = engineCache[k].result.data
              /\ calls[i].entryTime = engineCache[k].timestamp

\* C5: a call made by a userId whose quota of the last minute is used returns the
\* rate-limit failure, has changed neither the cache nor the resource counters and has not
\* reached the storage.
C5_OverQuotaTouchesNothing ==
    \A i \in DOMAIN calls :
        calls[i].overQuota
            => /\ calls[i].result.kind = "rate_limit"
               /\ ~calls[i].touched
               /\ calls[i].storage = "none"

\* the parser's tokens of a text hold no LIMIT keyword
noLimitClause(query) ==
    \A k \in DOMAIN tokenize(normalizeQuery(query)) :
        toUpperCase(tokenize(normalizeQuery(query))[k]) # <<"L", "I", "M", "I", "T">>

\* C8: the statement that reaches the storage for a text without a LIMIT clause carries a
\* LIMIT of at most the call's maxRows.
C8_LimitInjected ==
    \A i \in DOMAIN calls :
        (calls[i].storage # "none" /\ noLimitClause(calls[i].query))
            => /\ calls[i].sentLimit # Undefined
               /\ calls[i].sentLimit <= calls[i].maxRows

\* C9: a call that returned successfully returned at most maxRows rows.
C9_AtMostMaxRows ==
    \A i \in DOMAIN calls :
        (calls[i].pc = "done" /\ calls[i].result.success)
            => calls[i].result.rowCount <= calls[i].maxRows

timeouts == {"timeout", "engine_timeout"}

-----------------------------------------------------------------------------
(* Texts that the validator of the entry point rejects.                    *)

\* the validator of the call's entry point rejects its text: errorHandler.validateQuery
\* for SQLSandboxService, validateQuery for SQLQueryEngine
rejectedText(call) ==
    \/ call.api = "service" /\ ~validationOf(call.query).isValid
    \/ call.api = "engine" /\ call.rate # "rejected" /\ ~safetyOf(call.query).isValid

-----------------------------------------------------------------------------
(* querySandbox while its configuration is updated (program = "sandbox").   *)

\* the partial configurations handed to updateConfig
NewConfigs ==
    {[allowedTables |-> {<<"b", "l", "o", "c", "k", "s">>}],
     [allowedTables |-> {<<"t", "r", "a", "n", "s", "a", "c", "t", "i", "o", "n", "s">>, <<"e", "v", "e", "n", "t", "s">>}],
     [allowedTables |-> Range(STARKNET_SCHEMAS), maxResultRows |-> 10000]}

\* querySandbox.updateConfig(newConfig): { ...this.config, ...newConfig }
updateConfig(newConfig) ==
    /\ program = "sandbox"
    /\ config' = [f \in DOMAIN config |->
                     IF f \in DOMAIN newConfig THEN newConfig[f] ELSE config[f]]
    /\ config' # config
    /\ UNCHANGED <<now, ticks, program, engineCache, cache, executionHistory,
                   resourceUsage, stats, postgres, rateLimitStore, calls, last, text,
                   outcome>>
    /\ UNCHANGED <<indexer, ledger, errorLog>>

InitConfig ==
    /\ InitShared
    /\ program = "sandbox"
    /\ config \in Configs
    /\ postgres = FALSE

NextConfig ==
    \/ \E query \in ConfigQueries, userId \in {"u1"} :
          Len(calls) < MaxCalls /\ Sandbox_executeQuery(query, userId)
    \/ \E newConfig \in NewConfigs : updateConfig(newConfig)
    \/ \E i \in DOMAIN calls, avail \in {1500} : StorageResolves(i, avail, 0)
    \/ \E i \in DOMAIN calls : StorageRejects(i)
    \/ \E i \in DOMAIN calls : TimerFires(i)
    \/ \E d \in {4999, 60000, maxCacheAge} : ticks < MaxTicks /\ Tick(d)

SpecConfig == InitConfig /\ [][NextConfig]_vars

\* the tables that a text references, after FROM or as the target of a JOIN, lower-cased
referenced(query) ==
    {toLowerCase(parseOf(query).tables[i]) : i \in DOMAIN parseOf(query).tables}
        \cup {toLowerCase(parseOf(query).joins[i].table) : i \in DOMAIN parseOf(query).joins}

\* C12: an executeQuery call whose text references a table that is not in the allowlist
\* configured at the time of the call returns at once with an access-denied failure and
\* no data, whatever calls and updateConfig calls came before
C12_DisallowedTableDenied ==
    [][\A i \in DOMAIN calls' :
           (/\ i \notin DOMAIN calls
            /\ calls'[i].api = "sandbox"
            /\ ~(referenced(calls'[i].query) \subseteq config.allowedTables))
           => /\ calls'[i].pc = "done"
              /\ calls'[i].result.kind = "access_denied"
              /\ calls'[i].result.data = NoData]_vars

\* C13: a plan whose estimatedComplexity exceeds MAX_COMPLEXITY is invalid, and
\* executeQuery on its text has returned a failure at once, with no storage call started
\* and no timer armed
C13_TooComplexNeverExecuted ==
    \A i \in DOMAIN calls :
        (/\ calls[i].api = "sandbox"
         /\ parseOf(calls[i].query).estimatedComplexity > MAX_COMPLEXITY)
        => /\ ~parseOf(calls[i].query).isValid
           /\ calls[i].pc = "done"
           /\ ~calls[i].result.success
           /\ calls[i].result.data = NoData
           /\ calls[i].storage = "none"
           /\ calls[i].timer = "none"

\* a text that is too complex only was parsed and refused after an earlier call succeeded
C13_Witness ==
    \E i, j \in DOMAIN calls :
        /\ i < j
        /\ calls[i].result.success
        /\ calls[j].query = GroupByMany
        /\ parseOf(GroupByMany).estimatedComplexity = 52
        /\ parseOf(GroupByMany).errors = <<"too_complex">>
        /\ calls[j].parsed
        /\ calls[j].result.kind = "validation"
-----------------------------------------------------------------------------
(* The plans that parse returns.                                           *)

\* four WHERE conditions and no LIMIT
FourConditions == <<" ", "w", "h", "e", "r", "e", " ", "c", "1", " ", "=", " ", "1", " ", "a", "n", "d", " ", "c", "2", " ", "=", " ", "2", " ", "a", "n", "d", " ", "c", "3", " ", "=", " ", "3", " ", "a", "n", "d", " ", "c", "4", " ", "=", " ", "4">>

\* SELECT texts that join three tables, with commas, with INNER JOIN and with JOIN, under
\* four WHERE conditions and without a LIMIT
joinsThreeTables(t) ==
    \E f \in {<<" ", "f", "r", "o", "m", " ", "b", "l", "o", "c", "k", "s", ",", " ", "t", "r", "a", "n", "s", "a", "c", "t", "i", "o", "n", "s", ",", " ", "e", "v", "e", "n", "t", "s">>,
              <<" ", "f", "r", "o", "m", " ", "b", "l", "o", "c", "k", "s", " ", "i", "n", "n", "e", "r", " ", "j", "o", "i", "n", " ", "e", "v", "e", "n", "t", "s", " ", "o", "n", " ", "a", " ", "=", " ", "b", " ", "i", "n", "n", "e", "r", " ", "j", "o", "i", "n", " ", "t", "r", "a", "n", "s", "a", "c", "t", "i", "o", "n", "s", " ", "o", "n", " ", "c", " ", "=", " ", "d">>,
              <<" ", "f", "r", "o", "m", " ", "b", "l", "o", "c", "k", "s", " ", "j", "o", "i", "n", " ", "e", "v", "e", "n", "t", "s", " ", "o", "n", " ", "a", " ", "=", " ", "b", " ", "j", "o", "i", "n", " ", "t", "r", "a", "n", "s", "a", "c", "t", "i", "o", "n", "s", " ", "o", "n", " ", "c", " ", "=", " ", "d">>} :
        t = <<"s", "e", "l", "e", "c", "t", " ", "*">> \o f \o FourConditions

\* a plan with three tables, two joins, four conditions and no limit
threeTablePlan ==
    [tables |-> <<<<"B", "L", "O", "C", "K", "S">>, <<"E", "V", "E", "N", "T", "S">>, <<"T", "R", "A", "N", "S", "A", "C", "T", "I", "O", "N", "S">>>>, joins |-> <<1, 2>>,
     conditions |-> <<1, 2, 3, 4>>, groupBy |-> <<>>, orderBy |-> <<>>, limit |-> Undefined]

C15_InvalidIffErrors ==
    outcome.op = "parse" => (outcome.plan.isValid <=> outcome.plan.errors = <<>>)

\* a text with an unknown table and a LIMIT above the maximum came back as an invalid plan
\* with two errors
C15_Witness ==
    /\ outcome.op = "parse"
    /\ text = <<"s", "e", "l", "e", "c", "t", " ", "*", " ", "f", "r", "o", "m", " ", "u", "s", "e", "r", "s", " ", "l", "i", "m", "i", "t", " ", "1", "0", "0", "0", "1">>
    /\ ~outcome.plan.isValid
    /\ outcome.plan.errors = <<"unknown_table", "limit_too_large">>

\* the first token of a text is not SELECT
firstTokenNotSelect(t) ==
    /\ Len(tokenize(normalizeQuery(t))) > 0
    /\ tokenize(normalizeQuery(t))[1] # <<"S", "E", "L", "E", "C", "T">>

\* C16: a text whose first token is not SELECT, whatever that token is, comes back invalid
\* with the one error 'Only SELECT queries are allowed' and nothing of it parsed as a SELECT
C16_NonSelectRefused ==
    (outcome.op = "parse" /\ firstTokenNotSelect(text))
        => /\ ~outcome.plan.isValid
           /\ outcome.plan.errors = <<"not_select">>
           /\ outcome.plan.columns = <<>>
           /\ outcome.plan.tables = <<>>

\* texts of the form SELECT cols FROM t ORDER BY timestamp DESC LIMIT n, t a table of the
\* registry, n = 10 or n = 10000
orderedAndLimited(t, table, n) ==
    /\ table \in {<<"b", "l", "o", "c", "k", "s">>, <<"t", "r", "a", "n", "s", "a", "c", "t", "i", "o", "n", "s">>}
    /\ n \in {10, 10000}
    /\ \E h \in {<<"s", "e", "l", "e", "c", "t", " ", "*">>, <<"s", "e", "l", "e", "c", "t", " ", "b", "l", "o", "c", "k", "_", "n", "u", "m", "b", "e", "r", ",", " ", "b", "l", "o", "c", "k", "_", "h", "a", "s", "h">>} :
          t = h \o <<" ", "f", "r", "o", "m", " ">> \o table \o <<" ", "o", "r", "d", "e", "r", " ", "b", "y", " ", "t", "i", "m", "e", "s", "t", "a", "m", "p", " ", "d", "e", "s", "c", " ", "l", "i", "m", "i", "t", " ">> \o toDecimal(n)

\* C17: the plan of SELECT cols FROM t ORDER BY c DESC LIMIT n is valid, with the single
\* table t, the one ordering c DESC and the limit n written in the text
C17_OrderByLimitPlan ==
    \A table \in Range(STARKNET_SCHEMAS), n \in {10, 10000} :
        (outcome.op = "parse" /\ orderedAndLimited(text, table, n))
            => /\ outcome.plan.isValid
               /\ Len(outcome.plan.tables) = 1
               /\ toLowerCase(outcome.plan.tables[1]) = table
               /\ outcome.plan.orderBy =
                     <<[column |-> <<"T", "I", "M", "E", "S", "T", "A", "M", "P">>,
                        direction |-> <<"D", "E", "S", "C">>]>>
               /\ outcome.plan.limit = n

\* the plan names, as a FROM source or as the target of a JOIN, a table that is not in the
\* schema registry
namesUnknownTable(plan) ==
    \/ \E i \in DOMAIN plan.tables : toLowerCase(plan.tables[i]) \notin Range(STARKNET_SCHEMAS)
    \/ \E i \in DOMAIN plan.joins :
          toLowerCase(plan.joins[i].table) \notin Range(STARKNET_SCHEMAS)

\* C18: the plan of a SELECT text that references a table outside the schema registry, after
\* FROM or as the target of a JOIN, is invalid and carries the error that lists the allowed
\* tables
C18_UnknownTableRefused ==
    (/\ outcome.op = "parse"
     /\ ~firstTokenNotSelect(text)
     /\ namesUnknownTable(outcome.plan))
        => /\ ~outcome.plan.isValid
           /\ \E e \in DOMAIN outcome.plan.errors : outcome.plan.errors[e] = "unknown_table"
-----------------------------------------------------------------------------
(* The indexers: StarkNetIndexer of the server (program = "indexer"), which *)
(* is started directly and through POST /api/v1/indexer/start, and          *)
(* StarkNetDataSync of the browser (program = "sync").  A timer is named    *)
(* after the startSync call that scheduled it.                              *)

\* startSync calls per behaviour
MaxStarts == 3

\* sync passes begun by the timers
MaxPasses == 3

\* status.error after a pass of syncBlocks that ended with result: blocks "synced", no
\* new block ("idle"), or the chain RPC failed ("error")
errorAfter(result, error) ==
    IF result = "synced" THEN FALSE ELSE IF result = "error" THEN TRUE ELSE error

\* startSync(), called directly (via = "direct") or by the handler of
\* POST /api/v1/indexer/start (via = "route"), up to its first await.  busy: the indexer
\* was running or another call was in progress; scheduled: the timer the call set;
\* passed: the call began a sync pass
startSync(via) ==
    /\ program \in {"indexer", "sync"}
    /\ via = "route" => program = "indexer"
    /\ \E start \in {[via |-> via, pc |-> "returned", scheduled |-> NoTimer, passed |-> FALSE,
                      busy |-> \/ indexer.isRunning
                               \/ \E i \in DOMAIN indexer.starts :
                                     indexer.starts[i].pc \in {"connecting", "syncing"}]} :
          indexer' =
              IF indexer.isRunning
              THEN [indexer EXCEPT !.stopped = FALSE,
                                   !.starts =
                       Append(@, [start EXCEPT !.pc = IF via = "route" THEN "refused"
                                                      ELSE "returned"])]
              ELSE IF program = "sync"
              THEN [indexer EXCEPT !.stopped = FALSE,
                                   !.starts = Append(@, [start EXCEPT !.pc = "connecting"])]
              ELSE [indexer EXCEPT !.isRunning = TRUE,
                                   !.stopped = FALSE,
                                   !.passes = @ + 1,
                                   !.starts = Append(@, [start EXCEPT !.pc = "syncing",
                                                                      !.passed = TRUE])]
    /\ UNCHANGED <<now, ticks, program, engineCache, cache, executionHistory,
                   resourceUsage, config, stats, postgres, rateLimitStore, calls, last,
                   text, outcome, ledger, errorLog>>

\* StarkNetDataSync.connect of call i settles, and startSync goes on to its initial pass
connect(i, reachable) ==
    /\ program = "sync"
    /\ indexer.starts[i].pc = "connecting"
    /\ indexer' =
          IF reachable
          THEN [indexer EXCEPT !.status = [isConnected |-> TRUE, error |-> FALSE],
                               !.isRunning = TRUE,
                               !.passes = @ + 1,
                               !.starts[i].pc = "syncing",
                               !.starts[i].passed = TRUE]
          ELSE [indexer EXCEPT !.status = [isConnected |-> FALSE, error |-> TRUE],
                               !.starts[i].pc = "failed"]
    /\ UNCHANGED <<now, ticks, program, engineCache, cache, executionHistory,
                   resourceUsage, config, stats, postgres, rateLimitStore, calls, last,
                   text, outcome, ledger, errorLog>>

\* the initial pass of call i ends, and startSync sets the interval or gives up
initialSyncEnds(i, result) ==
    /\ program \in {"indexer", "sync"}
    /\ indexer.starts[i].pc = "syncing"
    /\ indexer' =
          IF program = "indexer" /\ result = "error"
          THEN [indexer EXCEPT !.isRunning = FALSE, !.starts[i].pc = "failed"]
          ELSE [indexer EXCEPT !.status.error = IF program = "sync"
                                                THEN errorAfter(result, @) ELSE @,
                               !.syncInterval = i,
                               !.timers = @ \cup {i},
                               !.starts[i].pc = "returned",
                               !.starts[i].scheduled = i]
    /\ UNCHANGED <<now, ticks, program, engineCache, cache, executionHistory,
                   resourceUsage, config, stats, postgres, rateLimitStore, calls, last,
                   text, outcome, ledger, errorLog>>

\* stopSync()
stopSync ==
    /\ program \in {"indexer", "sync"}
    /\ indexer' = [indexer EXCEPT !.isRunning = FALSE,
                                  !.stopped = TRUE,
                                  !.timers = @ \ {indexer.syncInterval},
                                  !.syncInterval = NoTimer]
    /\ UNCHANGED <<now, ticks, program, engineCache, cache, executionHistory,
                   resourceUsage, config, stats, postgres, rateLimitStore, calls, last,
                   text, outcome, ledger, errorLog>>

\* PeriodicSync, had the callback stopped the indexer and cleared its interval when the
\* pass failed
PeriodicSync_stopsOnError(h, result) ==
    /\ program \in {"indexer", "sync"}
    /\ \E k \in DOMAIN indexer.running :
          /\ indexer.running[k] = h
          /\ \A j \in 1..(k - 1) : indexer.running[j] # h
          /\ indexer' =
                IF result = "error"
                THEN [indexer EXCEPT !.running = SubSeq(@, 1, k - 1) \o SubSeq(@, k + 1, Len(@)),
                                     !.failed = indexer.passes,
                                     !.isRunning = FALSE,
                                     !.timers = @ \ {h},
                                     !.status.error = program = "sync"]
                ELSE [indexer EXCEPT !.running = SubSeq(@, 1, k - 1) \o SubSeq(@, k + 1, Len(@)),
                                     !.status.error = IF program = "sync"
                                                      THEN errorAfter(result, @) ELSE @]
    /\ UNCHANGED <<now, ticks, program, engineCache, cache, executionHistory,
                   resourceUsage, config, stats, postgres, rateLimitStore, calls, last,
                   text, outcome, ledger, errorLog>>

\* interval h fires and its callback begins a sync pass, whether or not an earlier pass
\* is still awaiting the chain or the storage; the callback of StarkNetDataSync does
\* nothing when isRunning is false
intervalFires(h) ==
    /\ program \in {"indexer", "sync"}
    /\ h \in indexer.timers
    /\ indexer' =
          IF program = "sync" /\ ~indexer.isRunning THEN indexer
          ELSE [indexer EXCEPT !.passes = @ + 1, !.running = Append(@, h)]
    /\ UNCHANGED <<now, ticks, program, engineCache, cache, executionHistory,
                   resourceUsage, config, stats, postgres, rateLimitStore, calls, last,
                   text, outcome, ledger, errorLog>>

\* the sync pass begun by the callback of interval h ends with result; an error of the
\* pass is caught and logged by the callback (StarkNetIndexer) or by syncBlocks itself
PeriodicSync(h, result) ==
    /\ program \in {"indexer", "sync"}
    /\ \E k \in DOMAIN indexer.running :
          /\ indexer.running[k] = h
          /\ \A j \in 1..(k - 1) : indexer.running[j] # h
          /\ indexer' =
                [indexer EXCEPT !.running = SubSeq(@, 1, k - 1) \o SubSeq(@, k + 1, Len(@)),
                                !.failed = IF result = "error" THEN indexer.passes ELSE @,
                                !.status.error = IF program = "sync"
                                                 THEN errorAfter(result, @) ELSE @]
    /\ UNCHANGED <<now, ticks, program, engineCache, cache, executionHistory,
                   resourceUsage, config, stats, postgres, rateLimitStore, calls, last,
                   text, outcome, ledger, errorLog>>

InitIndexer ==
    /\ InitShared
    /\ program \in {"indexer", "sync"}
    /\ config = defaultConfig
    /\ postgres = FALSE

NextIndexer ==
    \/ \E via \in {"direct", "route"} :
          Len(indexer.starts) < MaxStarts /\ startSync(via)
    \/ \E i \in DOMAIN indexer.starts, reachable \in BOOLEAN : connect(i, reachable)
    \/ \E i \in DOMAIN indexer.starts, result \in {"synced", "idle", "error"} : initialSyncEnds(i, result)
    \/ stopSync
    \/ \E h \in indexer.timers : indexer.passes < MaxPasses /\ intervalFires(h)
    \/ \E h \in DOMAIN indexer.starts, result \in {"synced", "idle", "error"} :
          PeriodicSync(h, result)

SpecIndexer == InitIndexer /\ [][NextIndexer]_vars

\* C19: a startSync call made while the indexer was running or another startSync call was
\* in progress has returned without error, began no pass and set no timer; at most one
\* interval timer is alive, and only while the indexer is marked running
C19_SingleTimerWhileRunning ==
    /\ \A i \in DOMAIN indexer.starts :
          indexer.starts[i].busy
              => /\ indexer.starts[i].pc = "returned"
                 /\ indexer.starts[i].scheduled = NoTimer
                 /\ ~indexer.starts[i].passed
    /\ Cardinality(indexer.timers) <= 1
    /\ indexer.timers # {} => indexer.isRunning

\* C20: when a startSync call fails because the chain RPC cannot be reached, the indexer is
\* left not running with no timer alive, the call has performed no sync pass, and the
\* status records the error: error set, isConnected false
C20_FailedStartLeavesStopped ==
    [][\A i \in DOMAIN indexer.starts :
           (indexer.starts[i].pc # "failed" /\ indexer'.starts[i].pc = "failed")
           => /\ ~indexer'.isRunning
              /\ indexer'.timers = {}
              /\ ~indexer'.starts[i].passed
              /\ indexer'.status.error
              /\ ~indexer'.status.isConnected]_vars

\* C21: once stopSync has returned, no sync pass begins until startSync is called again,
\* at whatever point stopSync was called
C21_NoPassAfterStop ==
    [][(indexer.stopped /\ Len(indexer'.starts) = Len(indexer.starts))
           => indexer'.passes = indexer.passes]_vars

\* C22: a periodic sync pass that fails leaves the timers and the running flag as they
\* were, so that the interval fires again; a timer is removed by stopSync only
C22_FailedPassKeepsTimer ==
    [][/\ indexer'.failed # indexer.failed
            => /\ indexer'.timers = indexer.timers
               /\ indexer'.isRunning = indexer.isRunning
       /\ ~(indexer.timers \subseteq indexer'.timers)
            => /\ indexer'.stopped
               /\ ~indexer'.isRunning
               /\ indexer'.syncInterval = NoTimer]_vars

\* a periodic pass has failed while the indexer was running, and the timer has begun
\* another pass after it
C22_Witness ==
    /\ indexer.isRunning
    /\ ~indexer.stopped
    /\ indexer.timers # {}
    /\ indexer.failed > 0
    /\ indexer.passes > indexer.failed
-----------------------------------------------------------------------------
(* The ledger: StarkNetIndexer writing the tables of StarkNetDataSchema     *)
(* (program = "indexer") and StarkNetDataSync handing blocks, transactions  *)
(* and events to its listeners (program = "sync").  A table is the sequence *)
(* of its rows in the order of insertion; the id of an event row is its     *)
(* position.  A fault names the one step of an operation that fails.        *)

\* indexing operations per behaviour
MaxLedgerOps == 3

\* config.batchSize of the StarkNetIndexer
batchSize == 2

\* what the provider returns: the blocks of the chain with their transactions, and for
\* each transaction the fields of its receipt (events: the length of receipt.events)
Chain ==
    << [block_hash |-> "b1",
        transactions |-> << [transaction_hash |-> "t1", type |-> "INVOKE",
                             finality_status |-> "ACCEPTED_ON_L2",
                             execution_status |-> "SUCCEEDED", events |-> 1] >>],
       [block_hash |-> "b2",
        transactions |-> << [transaction_hash |-> "t2", type |-> "INVOKE",
                             finality_status |-> "ACCEPTED_ON_L2",
                             execution_status |-> "REVERTED", events |-> 1],
                            [transaction_hash |-> "t3", type |-> "DEPLOY_ACCOUNT",
                             finality_status |-> "ACCEPTED_ON_L2",
                             execution_status |-> "SUCCEEDED", events |-> 0] >>],
       [block_hash |-> "b3",
        transactions |-> << [transaction_hash |-> "t4", type |-> "INVOKE",
                             finality_status |-> "ACCEPTED_ON_L1",
                             execution_status |-> "SUCCEEDED", events |-> 2] >>] >>

\* insertBlock as a plain INSERT that no key constraint stops
insertBlock_plainInsert(l, block) ==
    [l EXCEPT !.blocks = Append(@, block)]

\* INSERT OR REPLACE INTO blocks: block_hash is the primary key, block_number is unique
insertBlock(l, block) ==
    LET other(r) == /\ r.block_hash # block.block_hash
                    /\ r.block_number # block.block_number
    IN  [l EXCEPT !.blocks = Append(SelectSeq(@, other), block)]

\* INSERT OR REPLACE INTO transactions: transaction_hash is the primary key
insertTransaction(l, transaction) ==
    LET other(r) == r.transaction_hash # transaction.transaction_hash
    IN  [l EXCEPT !.transactions = Append(SelectSeq(@, other), transaction)]

\* SELECT MAX(block_number) FROM blocks; null, which syncLatestBlocks reads as
\* config.startBlock || 0, is 0
getLatestBlockNumber(l) ==
    IF l.blocks = <<>> THEN 0
    ELSE CHOOSE n \in {l.blocks[i].block_number : i \in DOMAIN l.blocks} :
            \A i \in DOMAIN l.blocks : l.blocks[i].block_number <= n

\* indexTransaction, with indexEvents (INSERT INTO events, id AUTOINCREMENT) and
\* indexContractDeployment (INSERT OR REPLACE INTO contracts): ok is FALSE when it throws
indexTransaction(l, tx, blockNumber, transactionIndex, fault) ==
    LET hit(step) == fault = [block |-> blockNumber, step |-> step, tx |-> transactionIndex]
        stored ==
            insertTransaction(l, [transaction_hash |-> tx.transaction_hash,
                                  block_number |-> blockNumber,
                                  transaction_index |-> transactionIndex])
        isSuccessful ==
            /\ tx.finality_status \in {"ACCEPTED_ON_L2", "ACCEPTED_ON_L1"}
            /\ tx.execution_status = "SUCCEEDED"
        indexed ==
            IF ~hit("getTransactionReceipt") /\ isSuccessful /\ tx.events > 0
                  /\ ~hit("insertEvent")
            THEN [stored EXCEPT !.events =
                     @ \o [e \in 1..tx.events |->
                              [transaction_hash |-> tx.transaction_hash,
                               event_index |-> e - 1, block_number |-> blockNumber]]]
            ELSE stored
        other(r) == r.contract_address # tx.transaction_hash
        deployed ==
            IF tx.type \in {"DEPLOY", "DEPLOY_ACCOUNT"}
            THEN [indexed EXCEPT !.contracts =
                     Append(SelectSeq(@, other),
                            [contract_address |-> tx.transaction_hash,
                             deployed_at_block |-> blockNumber])]
            ELSE indexed
    IN  IF hit("insertTransaction") THEN [l |-> l, ok |-> FALSE]
        ELSE [l |-> deployed, ok |-> TRUE]

\* indexBlock(blockNumber): the Block row first, then the transactions in order; what was
\* written before a step throws stays
indexBlock(l, blockNumber, fault) ==
    LET hit(step) == fault = [block |-> blockNumber, step |-> step, tx |-> 0]
        called == [l EXCEPT !.last.attempted = Append(@, blockNumber)]
        RECURSIVE transactions(_, _)
        transactions(db, i) ==
            IF i > Len(Chain[blockNumber].transactions) THEN [l |-> db, ok |-> TRUE]
            ELSE LET r == indexTransaction(db, Chain[blockNumber].transactions[i],
                                           blockNumber, i - 1, fault)
                 IN  IF r.ok THEN transactions(r.l, i + 1) ELSE r
    IN  IF blockNumber \notin DOMAIN Chain \/ hit("getBlockWithTxs") \/ hit("insertBlock")
        THEN [l |-> called, ok |-> FALSE]
        ELSE transactions(insertBlock(called, [block_hash |-> Chain[blockNumber].block_hash,
                                               block_number |-> blockNumber]), 1)

\* syncLatestBlocks() of StarkNetIndexer, the chain head being latest
syncLatestBlocks(latest, fault) ==
    /\ program = "indexer"
    /\ latest >= ledger.head
    /\ LET lastSyncedBlock == getLatestBlockNumber(ledger)
           blocksToSync == Min(latest - lastSyncedBlock, batchSize)
           begun == [ledger EXCEPT !.ops = @ + 1, !.head = latest,
                        !.last = [op |-> "syncLatestBlocks", from |-> lastSyncedBlock + 1,
                                  to |-> lastSyncedBlock + blocksToSync, fault |-> fault,
                                  had |-> {ledger.blocks[i].block_number :
                                              i \in DOMAIN ledger.blocks},
                                  attempted |-> <<>>, raised |-> FALSE]]
           RECURSIVE blocks(_, _)
           blocks(db, i) ==
               IF i > blocksToSync THEN db
               ELSE LET r == indexBlock(db, lastSyncedBlock + i, fault)
                    IN  IF r.ok THEN blocks(r.l, i + 1)
                        ELSE [r.l EXCEPT !.last.raised = TRUE]
       IN  ledger' = IF fault.step = "getBlockNumber"
                     THEN [begun EXCEPT !.head = ledger.head, !.last.raised = TRUE]
                     ELSE blocks(begun, 1)
    /\ UNCHANGED <<now, ticks, program, engineCache, cache, executionHistory,
                   resourceUsage, config, stats, postgres, rateLimitStore, calls, last,
                   text, outcome, indexer, errorLog>>

\* backfillBlocks without the try around indexBlock: the first failure ends the backfill
backfillBlocks_stopsAtFailure(fromBlock, toBlock, fault) ==
    /\ program = "indexer"
    /\ LET begun == [ledger EXCEPT !.ops = @ + 1,
                        !.last = [op |-> "backfillBlocks", from |-> fromBlock,
                                  to |-> toBlock, fault |-> fault,
                                  had |-> {ledger.blocks[i].block_number :
                                              i \in DOMAIN ledger.blocks},
                                  attempted |-> <<>>, raised |-> FALSE]]
           RECURSIVE blocks(_, _, _)
           blocks(db, blockNumber, end) ==
               IF blockNumber > end THEN db
               ELSE LET r == indexBlock(db, blockNumber, fault)
                    IN  IF r.ok THEN blocks(r.l, blockNumber + 1, end)
                        ELSE [r.l EXCEPT !.last.raised = TRUE]
           RECURSIVE batches(_, _)
           batches(db, start) ==
               IF start > toBlock \/ db.last.raised THEN db
               ELSE batches(blocks(db, start, Min(start + batchSize - 1, toBlock)),
                            start + batchSize)
       IN  ledger' = batches(begun, fromBlock)
    /\ UNCHANGED <<now, ticks, program, engineCache, cache, executionHistory,
                   resourceUsage, config, stats, postgres, rateLimitStore, calls, last,
                   text, outcome, indexer, errorLog>>

\* backfillBlocks(fromBlock, toBlock) of StarkNetIndexer
backfillBlocks(fromBlock, toBlock, fault) ==
    /\ program = "indexer"
    /\ LET begun == [ledger EXCEPT !.ops = @ + 1,
                        !.last = [op |-> "backfillBlocks", from |-> fromBlock,
                                  to |-> toBlock, fault |-> fault,
                                  had |-> {ledger.blocks[i].block_number :
                                              i \in DOMAIN ledger.blocks},
                                  attempted |-> <<>>, raised |-> FALSE]]
           RECURSIVE blocks(_, _, _)
           blocks(db, blockNumber, end) ==
               IF blockNumber > end THEN db
               ELSE blocks(indexBlock(db, blockNumber, fault).l, blockNumber + 1, end)
           RECURSIVE batches(_, _)
           batches(db, start) ==
               IF start > toBlock THEN db
               ELSE batches(blocks(db, start, Min(start + batchSize - 1, toBlock)),
                            start + batchSize)
       IN  ledger' = batches(begun, fromBlock)
    /\ UNCHANGED <<now, ticks, program, engineCache, cache, executionHistory,
                   resourceUsage, config, stats, postgres, rateLimitStore, calls, last,
                   text, outcome, indexer, errorLog>>

\* a sync pass of StarkNetDataSync, the chain head being latest: the initial pass of
\* startSync(fromBlock) after connect, or the pass of the interval callback.  syncBlock and
\* syncTransaction catch their errors; extractEventsFromReceipt returns receipt.events
\* whenever the receipt has the list.  The number of the next block is computed from
\* status.lastSyncedBlock, which the loop has just advanced, and the loop counter.
\* fromBlock = 0 stands for a call without fromBlock too; syncProgress is kept as the
\* fraction num / den
syncBlocks(fromBlock, latest, fault) ==
    /\ program = "sync"
    /\ latest >= ledger.head
    /\ ledger.status.isConnected => fromBlock = ledger.fromBlock
    /\ LET begun ==
               [ledger EXCEPT
                   !.ops = @ + 1, !.head = latest, !.fromBlock = fromBlock,
                   !.status = [isConnected |-> TRUE, currentBlock |-> latest,
                               lastSyncedBlock |-> IF ledger.status.isConnected
                                                   THEN @.lastSyncedBlock
                                                   ELSE IF fromBlock = 0 THEN latest - 100
                                                   ELSE fromBlock,
                               syncProgress |-> @.syncProgress],
                   !.last = [op |-> "syncBlocks", from |-> 0, to |-> 0, fault |-> fault,
                             had |-> {}, attempted |-> <<>>, raised |-> FALSE]]
           blocksToSync == Min(latest - begun.status.lastSyncedBlock, 10)
           read == [begun EXCEPT !.last.from = begun.status.lastSyncedBlock + 1,
                                 !.last.to = begun.status.lastSyncedBlock + blocksToSync]
           progress(lastSyncedBlock) ==
               LET synced == lastSyncedBlock - (latest - blocksToSync)
               IN  IF synced * 100 > 100 * blocksToSync THEN [num |-> 100, den |-> 1]
                   ELSE [num |-> synced * 100, den |-> blocksToSync]
           notice(type, n, hash, index) ==
               [type |-> type, block_number |-> n, transaction_hash |-> hash, index |-> index]
           syncTransaction(db, n, i) ==
               LET tx == Chain[n].transactions[i]
               IN  IF fault = [block |-> n, step |-> "getTransactionReceipt", tx |-> i - 1]
                   THEN db
                   ELSE [db EXCEPT !.emitted =
                            (Append(@, notice("transaction", n, tx.transaction_hash, i - 1))
                                \o [e \in 1..tx.events |->
                                       notice("event", n, tx.transaction_hash, e - 1)])
                                \o (IF tx.type \in {"DEPLOY_ACCOUNT", "DEPLOY"}
                                    THEN <<notice("contract", n, tx.transaction_hash, 0)>>
                                    ELSE <<>>)]
           RECURSIVE transactions(_, _, _)
           transactions(db, n, i) ==
               IF i > Len(Chain[n].transactions) THEN db
               ELSE transactions(syncTransaction(db, n, i), n, i + 1)
           syncBlock(db, n) ==
               IF n \notin DOMAIN Chain
                     \/ fault = [block |-> n, step |-> "getBlockWithTxs", tx |-> 0]
               THEN db
               ELSE transactions([db EXCEPT !.emitted =
                                     Append(@, notice("block", n, Chain[n].block_hash, 0))],
                                 n, 1)
           RECURSIVE blocks(_, _)
           blocks(db, i) ==
               IF i >= blocksToSync THEN db
               ELSE LET blockNumber == db.status.lastSyncedBlock + i + 1
                    IN  blocks([syncBlock([db EXCEPT !.last.attempted =
                                                        Append(@, blockNumber)],
                                          blockNumber)
                                   EXCEPT !.status.lastSyncedBlock = blockNumber,
                                          !.status.syncProgress = progress(blockNumber)],
                           i + 1)
       IN  ledger' = IF fault.step = "getBlockNumber"
                     THEN IF ledger.status.isConnected
                          THEN [begun EXCEPT !.head = ledger.head,
                                             !.status.currentBlock = ledger.status.currentBlock]
                          ELSE begun
                     ELSE IF blocksToSync <= 0
                     THEN [read EXCEPT !.status.syncProgress = [num |-> 100, den |-> 1]]
                     ELSE blocks(read, 0)
    /\ UNCHANGED <<now, ticks, program, engineCache, cache, executionHistory,
                   resourceUsage, config, stats, postgres, rateLimitStore, calls, last,
                   text, outcome, indexer, errorLog>>

InitLedger ==
    /\ InitShared
    /\ program \in {"indexer", "sync"}
    /\ config = defaultConfig
    /\ postgres = FALSE

\* the one step of an operation that rejects: none, the read of the chain head, a step of
\* indexBlock(block), or a step of the transaction at index tx of the block
Faults ==
    {[block |-> 0, step |-> "none", tx |-> 0],
     [block |-> 0, step |-> "getBlockNumber", tx |-> 0]}
    \cup [block : DOMAIN Chain, step : {"getBlockWithTxs", "insertBlock"}, tx : {0}]
    \cup [block : DOMAIN Chain,
          step : {"insertTransaction", "getTransactionReceipt", "insertEvent"},
          tx : {0, 1}]

NextLedger ==
    \/ \E latest \in DOMAIN Chain, fault \in Faults :
          ledger.ops < MaxLedgerOps /\ syncLatestBlocks(latest, fault)
    \/ \E fromBlock \in DOMAIN Chain, toBlock \in DOMAIN Chain, fault \in Faults :
          ledger.ops < MaxLedgerOps /\ backfillBlocks(fromBlock, toBlock, fault)
    \/ \E fromBlock \in {0} \cup DOMAIN Chain, latest \in DOMAIN Chain, fault \in Faults :
          ledger.ops < MaxLedgerOps /\ syncBlocks(fromBlock, latest, fault)

SpecLedger == InitLedger /\ [][NextLedger]_vars

\* block n has its Block row and every Transaction row of it in storage (StarkNetIndexer),
\* or was handed to the listeners with every transaction of it (StarkNetDataSync)
fullyIndexed(n) ==
    IF program = "sync"
    THEN /\ \E i \in DOMAIN ledger.emitted :
               ledger.emitted[i].type = "block" /\ ledger.emitted[i].block_number = n
         /\ \A t \in DOMAIN Chain[n].transactions :
               \E i \in DOMAIN ledger.emitted :
                  /\ ledger.emitted[i].type = "transaction"
                  /\ ledger.emitted[i].transaction_hash =
                        Chain[n].transactions[t].transaction_hash
    ELSE /\ \E i \in DOMAIN ledger.blocks : ledger.blocks[i].block_number = n
         /\ \A t \in DOMAIN Chain[n].transactions :
               \E i \in DOMAIN ledger.transactions :
                  ledger.transactions[i].transaction_hash =
                     Chain[n].transactions[t].transaction_hash

\* the height from which the next sync pass resumes
lastSyncedHeight ==
    IF program = "sync" THEN ledger.status.lastSyncedBlock
    ELSE getLatestBlockNumber(ledger)

\* C23: every block of the chain above the start height and at or below the height from
\* which the next pass resumes is fully indexed, whatever step failed before
C23_ResumePastIndexedBlocksOnly ==
    \A n \in DOMAIN Chain :
        (ledger.fromBlock < n /\ n <= lastSyncedHeight) => fullyIndexed(n)

\* C24: the blocks table holds one row per block number and per block hash and the
\* transactions table one row per transaction hash, and indexing any block a second time
\* leaves both tables as they were after indexing it once
C24_ReindexKeepsOneRow ==
    program = "indexer" =>
        /\ \A i, j \in DOMAIN ledger.blocks :
              i # j => /\ ledger.blocks[i].block_number # ledger.blocks[j].block_number
                       /\ ledger.blocks[i].block_hash # ledger.blocks[j].block_hash
        /\ \A i, j \in DOMAIN ledger.transactions :
              i # j => ledger.transactions[i].transaction_hash #
                          ledger.transactions[j].transaction_hash
        /\ \A n \in DOMAIN Chain, none \in {[block |-> 0, step |-> "none", tx |-> 0]} :
              \E once \in {indexBlock(ledger, n, none).l} :
                 \E twice \in {indexBlock(once, n, none).l} :
                    /\ twice.blocks = once.blocks
                    /\ twice.transactions = once.transactions

\* a backfill without failure has indexed again a block that was in storage before
C24_Witness ==
    /\ program = "indexer"
    /\ ledger.last.op = "backfillBlocks"
    /\ ledger.last.fault.step = "none"
    /\ \E n \in ledger.last.from..ledger.last.to :
          /\ n \in ledger.last.had
          /\ fullyIndexed(n)
          /\ Len(SelectSeq(ledger.last.attempted, LAMBDA a : a = n)) = 1

\* C25: no ledger table holds a record twice: one Block row per block, one Transaction row
\* per transaction hash, one Event row per event of a transaction, one Contract row per
\* address, however often a block was indexed
C25_ReindexDuplicatesNoRow ==
    program = "indexer" =>
        /\ \A i, j \in DOMAIN ledger.blocks :
              i # j => ledger.blocks[i].block_number # ledger.blocks[j].block_number
        /\ \A i, j \in DOMAIN ledger.transactions :
              i # j => ledger.transactions[i].transaction_hash #
                          ledger.transactions[j].transaction_hash
        /\ \A i, j \in DOMAIN ledger.contracts :
              i # j => ledger.contracts[i].contract_address #
                          ledger.contracts[j].contract_address
        /\ \A i, j \in DOMAIN ledger.events : i # j => ledger.events[i] # ledger.events[j]

\* C26: a backfill has raised no error of a block, and every block of its range other than
\* the one whose indexing failed is fully indexed
C26_BackfillSkipsFailedBlock ==
    (program = "indexer" /\ ledger.last.op = "backfillBlocks") =>
        /\ ~ledger.last.raised
        /\ \A n \in ledger.last.from..ledger.last.to :
              n # ledger.last.fault.block => fullyIndexed(n)

\* a backfill over three blocks that were not in storage, in which the Block row of the
\* middle one could not be inserted, has indexed the block before and the block after it
C26_Witness ==
    /\ program = "indexer"
    /\ ledger.last.op = "backfillBlocks"
    /\ ledger.last.had = {}
    /\ \E k \in DOMAIN Chain :
          /\ ledger.last.from < k /\ k < ledger.last.to
          /\ ledger.last.fault = [block |-> k, step |-> "insertBlock", tx |-> 0]
          /\ ~fullyIndexed(k)
          /\ fullyIndexed(k - 1)
          /\ fullyIndexed(k + 1)
          /\ ledger.last.attempted = <<k - 1, k, k + 1>>

\* the receipt of the transaction with this hash reports a successful execution
succeeded(hash) ==
    \E n \in DOMAIN Chain :
       \E t \in DOMAIN Chain[n].transactions :
          /\ Chain[n].transactions[t].transaction_hash = hash
          /\ Chain[n].transactions[t].execution_status = "SUCCEEDED"

\* C27: every Event row in storage and every event handed to the listeners belongs to a
\* transaction whose receipt reports a successful execution
C27_EventsOfSucceededOnly ==
    /\ \A i \in DOMAIN ledger.events : succeeded(ledger.events[i].transaction_hash)
    /\ \A i \in DOMAIN ledger.emitted :
          ledger.emitted[i].type = "event"
              => succeeded(ledger.emitted[i].transaction_hash)

\* C28: every execution that the route has answered, with rows, from the cache or with an
\* error, has its record in the query history
C28_EveryExecutionLogged ==
    \A i \in DOMAIN calls :
        (calls[i].api = "engine" /\ calls[i].rate = "admitted" /\ calls[i].pc = "done")
            => calls[i].logged
-----------------------------------------------------------------------------
(* The error log of QueryErrorHandler (program = "errors").  An entry keeps *)
(* the type of the error and the number of the call that logged it.        *)

\* 1000 in the source (QueryErrorHandler.maxLogSize); scaled so that the log fills
maxLogSize == 3

\* handleExecutionError calls per behaviour
MaxErrors == 6

\* handleExecutionError, had logError kept the head of the log when it is full
handleExecutionError_keepsOldest(message) ==
    /\ program = "errors"
    /\ \E pushed \in {Append(errorLog.log, [type |-> classifyError(message),
                                            n |-> errorLog.count + 1])} :
          errorLog' = [log |-> IF Len(pushed) > maxLogSize
                               THEN SubSeq(pushed, 1, maxLogSize) ELSE pushed,
                       count |-> errorLog.count + 1]
    /\ UNCHANGED <<now, ticks, program, engineCache, cache, executionHistory,
                   resourceUsage, config, stats, postgres, rateLimitStore, calls, last,
                   text, outcome, indexer, ledger>>

\* handleExecutionError(new Error(message), query, userId), with createError and logError:
\* push, then slice(-maxLogSize) when the log is longer than maxLogSize
handleExecutionError(message) ==
    /\ program = "errors"
    /\ \E pushed \in {Append(errorLog.log, [type |-> classifyError(message),
                                            n |-> errorLog.count + 1])} :
          errorLog' = [log |-> IF Len(pushed) > maxLogSize
                               THEN SubSeq(pushed, Len(pushed) - maxLogSize + 1, Len(pushed))
                               ELSE pushed,
                       count |-> errorLog.count + 1]
    /\ UNCHANGED <<now, ticks, program, engineCache, cache, executionHistory,
                   resourceUsage, config, stats, postgres, rateLimitStore, calls, last,
                   text, outcome, indexer, ledger>>

\* clearErrorLog()
clearErrorLog ==
    /\ program = "errors"
    /\ errorLog.log # <<>>
    /\ errorLog' = [errorLog EXCEPT !.log = <<>>]
    /\ UNCHANGED <<now, ticks, program, engineCache, cache, executionHistory,
                   resourceUsage, config, stats, postgres, rateLimitStore, calls, last,
                   text, outcome, indexer, ledger>>

InitErrorLog ==
    /\ InitShared
    /\ program = "errors"
    /\ config = defaultConfig
    /\ postgres = FALSE

NextErrorLog ==
    \/ \E kind \in {"timeout", "storage_error", "validation"} :
          errorLog.count < MaxErrors /\ handleExecutionError(ErrorMessage(kind))
    \/ clearErrorLog

SpecErrorLog == InitErrorLog /\ [][NextErrorLog]_vars

\* C29: the error log never holds more than maxLogSize entries, and a handleExecutionError
\* call leaves in it the entries it held, in their order, followed by the new error, less
\* the oldest entries beyond maxLogSize
C29_ErrorLogBounded ==
    [][/\ Len(errorLog'.log) <= maxLogSize
       /\ errorLog'.count # errorLog.count =>
             \E all \in {Append(errorLog.log, errorLog'.log[Len(errorLog'.log)])} :
                /\ errorLog'.log # <<>>
                /\ errorLog'.log[Len(errorLog'.log)].n = errorLog'.count
                /\ errorLog'.log =
                      SubSeq(all, Len(all) - Min(Len(all), maxLogSize) + 1, Len(all))]_vars

\* more errors than the log can hold were logged: the log is full and holds the last
\* maxLogSize of them, the oldest first
C29_Witness ==
    /\ program = "errors"
    /\ errorLog.count > maxLogSize + 1
    /\ Len(errorLog.log) = maxLogSize
    /\ \A k \in DOMAIN errorLog.log :
          errorLog.log[k].n = errorLog.count - maxLogSize + k

\* C30: a step of an executeQuery call made with useCache = false, in the service or the
\* engine, leaves both caches as they were (no entry read, counted or written), and the
\* call does not return fromCache = true
C30_NoCacheWithoutUseCache ==
    [][\A i \in DOMAIN calls' :
           (/\ calls'[i].api \in {"service", "engine"}
            /\ ~calls'[i].useCache
            /\ (i \in DOMAIN calls => calls'[i] # calls[i]))
               => /\ cache' = cache
                  /\ engineCache' = engineCache
                  /\ ~calls'[i].result.fromCache]_vars

\* C31: for every user, the requests admitted within any 60 seconds are at most the quota
\* (rateLimitPerMinute of the sandbox, RATE_LIMIT_MAX_REQUESTS of the route); the requests
\* of other users are not counted
C31_SlidingWindowQuota ==
    \A j \in DOMAIN calls :
        calls[j].rate = "admitted" =>
            Cardinality({i \in 1..j : /\ calls[i].userId = calls[j].userId
                                      /\ calls[i].rate = "admitted"
                                      /\ calls[j].startTime - calls[i].startTime < 60000})
                <= IF calls[j].api = "engine" THEN RATE_LIMIT_MAX_REQUESTS
                   ELSE config.rateLimitPerMinute

\* C32: a get that finds a live entry under the key of its text raises the hitCount of
\* that entry by 1, sets its lastAccessed to the current time and returns it, and leaves
\* its other fields and every other entry as they were; a get that finds an entry older
\* than maxCacheAge removes that entry alone; a get that finds nothing changes nothing
C32_GetTouchesOneEntry ==
    [][(program = "cache" /\ Len(calls') > Len(calls) /\ last'.op = "get") =>
          \E i \in {cacheIndex(cache, hashOf(last'.query))} :
             IF i = 0 THEN cache' = cache /\ last'.entry = NoEntry
             ELSE IF now - cache[i].timestamp > maxCacheAge
             THEN /\ last'.entry = NoEntry
                  /\ cache' = SubSeq(cache, 1, i - 1) \o SubSeq(cache, i + 1, Len(cache))
             ELSE /\ Len(cache') = Len(cache)
                  /\ \A j \in DOMAIN cache : j # i => cache'[j] = cache[j]
                  /\ cache'[i].hitCount = cache[i].hitCount + 1
                  /\ cache'[i].lastAccessed = now
                  /\ cache'[i] = [cache[i] EXCEPT !.hitCount = cache'[i].hitCount,
                                                  !.lastAccessed = cache'[i].lastAccessed]
                  /\ last'.entry = cache'[i]]_vars

\* a get has hit one of two stored entries a second time, at a later time than the set
C32_Witness ==
    /\ program = "cache"
    /\ last.op = "get"
    /\ last.entry # NoEntry
    /\ last.entry.hitCount = 2
    /\ last.entry.lastAccessed > last.entry.timestamp
    /\ Len(cache) = 2

\* C33: after a successful full execution that took more than 5000 ms, the next call for
\* the same text that is not refused by the rate limit does not find the result in a
\* cache: it does not return fromCache = true
C33_SlowResultNotCached ==
    \A i \in DOMAIN calls : \A j \in DOMAIN calls :
        (/\ calls[i].pc = "done"
         /\ calls[i].result.success
         /\ ~calls[i].result.fromCache
         /\ calls[i].result.executionTime > 5000
         /\ calls[j].query = calls[i].query
         /\ calls[j].began > calls[i].ended
         /\ \A k \in DOMAIN calls :
               calls[k].query = calls[i].query => ~(i < k /\ k < j))
            => ~calls[j].result.fromCache

\* the block numbers lastSyncedHeight + 1, lastSyncedHeight + 2, ... that a pass starting
\* at height lastSynced has to index under the chain head and the size of a batch
blocksOfPass(lastSynced, chainHead, size) ==
    [k \in 1..Min(chainHead - lastSynced, size) |-> lastSynced + k]

\* C34: a sync pass in which no step fails attempts exactly the blocks lastSyncedHeight + 1,
\* lastSyncedHeight + 2, ... in ascending order without a gap, min(chainHead -
\* lastSyncedHeight, batchSize) of them when that is positive and none otherwise, and so
\* none above the chain head it read
C34_PassIndexesNextBlocks ==
    (ledger.last.op \in {"syncLatestBlocks", "syncBlocks"} /\ ledger.last.fault.step = "none")
        => ledger.last.attempted =
              blocksOfPass(ledger.last.from - 1, ledger.head,
                           IF program = "indexer" THEN batchSize ELSE 10)

\* C35: after a completed set, whatever gets and sets came before it and at whatever
\* times, the cache holds at most its capacity of entries: maxCacheSize entries in
\* QueryCache, engineCacheLimit entries in the cache of SQLQueryEngine
C35_CacheWithinCapacity ==
    /\ (program = "cache" /\ last.op = "set") => Len(cache) <= maxCacheSize
    /\ (program = "engineCache" /\ last.op = "cacheResult") =>
           Len(engineCache) <= engineCacheLimit

\* the sync passes in flight: the initial passes of the startSync calls that have not
\* returned and the passes begun by interval callbacks that have not ended
passesInFlight ==
    Cardinality({i \in DOMAIN indexer.starts : indexer.starts[i].pc = "syncing"})
        + Len(indexer.running)

\* C36: at most one sync pass is in flight at any time: an interval callback that runs
\* while an earlier pass or the initial pass of startSync has not ended begins no pass
C36_OnePassInFlight == passesInFlight <= 1

\* C37: in a pass of StarkNetDataSync, each value given to lastSyncedBlock is one above
\* the value before it, and after the pass lastSyncedBlock is at most currentBlock, the
\* last chain head read, whatever fromBlock was given to startSync
C37_LastSyncedStepsByOne ==
    (program = "sync" /\ ledger.last.op = "syncBlocks") =>
        /\ \A k \in DOMAIN ledger.last.attempted :
              ledger.last.attempted[k] =
                 (IF k = 1 THEN ledger.last.from - 1 ELSE ledger.last.attempted[k - 1]) + 1
        /\ ledger.status.lastSyncedBlock <= ledger.status.currentBlock

\* C38: once startSync has connected, syncProgress is at least 0 and at most 100, and it
\* is 100 whenever lastSyncedBlock equals currentBlock
C38_ProgressIsPercentage ==
    (program = "sync" /\ ledger.status.isConnected) =>
        /\ 0 <= ledger.status.syncProgress.num
        /\ ledger.status.syncProgress.num <= 100 * ledger.status.syncProgress.den
        /\ ledger.status.lastSyncedBlock = ledger.status.currentBlock
              => ledger.status.syncProgress.num = 100 * ledger.status.syncProgress.den

\* C39: the entry that a get for query returns was stored by a set for a text that is
\* equal to query after lower-casing and trimming
C39_GetReturnsOwnRows ==
    (program = "cache" /\ last.op = "get" /\ last.entry # NoEntry)
        => toLowerCase(trim(last.entry.query)) = toLowerCase(trim(last.query))
-----------------------------------------------------------------------------
(* The loop of StarkNetIndexer.backfillBlocks, one batch at a step, for the *)
(* batch sizes that BATCH_SIZE can configure.                               *)

\* how far below fromBlock the loop variable start is followed; a lower value is kept as
\* fromBlock - MaxBelow, which the loop treats alike
MaxBelow == 4

\* backfillBlocks(fromBlock, toBlock) up to its outer loop, config.batchSize being
\* configured (0 for a size that is not set)
backfillBegins(fromBlock, toBlock, configured, fault) ==
    /\ program = "indexer"
    /\ ledger.last.op \in {"none", "backfilled"}
    /\ ledger' = [ledger EXCEPT
                     !.ops = @ + 1,
                     !.last = [op |-> "backfill", from |-> fromBlock, to |-> toBlock,
                               fault |-> fault,
                               had |-> {ledger.blocks[i].block_number :
                                           i \in DOMAIN ledger.blocks},
                               attempted |-> <<>>, raised |-> FALSE,
                               batchSize |-> IF configured = 0 THEN 10 ELSE configured,
                               start |-> fromBlock, delayed |-> FALSE]]
    /\ UNCHANGED <<now, ticks, program, engineCache, cache, executionHistory,
                   resourceUsage, config, stats, postgres, rateLimitStore, calls, last,
                   text, outcome, indexer, errorLog>>

\* backfillBlocks goes on: the test of its outer loop and, when it passes, the batch of
\* blocks start .. min(start + batchSize - 1, toBlock), each in its own try, up to the
\* delay, and when it fails the return; or, the delay over, start += batchSize
backfillBatch ==
    /\ program = "indexer"
    /\ ledger.last.op = "backfill"
    /\ LET end == Min(ledger.last.start + ledger.last.batchSize - 1, ledger.last.to)
           RECURSIVE blocks(_, _)
           blocks(db, blockNumber) ==
               IF blockNumber > end THEN db
               ELSE LET r == indexBlock(db, blockNumber, ledger.last.fault)
                    IN  blocks(IF r.ok THEN r.l ELSE [r.l EXCEPT !.last.raised = TRUE],
                               blockNumber + 1)
       IN  ledger' = IF ledger.last.delayed
                     THEN [ledger EXCEPT
                              !.last.delayed = FALSE,
                              !.last.start = IF @ + ledger.last.batchSize
                                                   < ledger.last.from - MaxBelow
                                             THEN ledger.last.from - MaxBelow
                                             ELSE @ + ledger.last.batchSize]
                     ELSE IF ledger.last.start <= ledger.last.to
                     THEN [blocks(ledger, ledger.last.start) EXCEPT !.last.delayed = TRUE]
                     ELSE [ledger EXCEPT !.last.op = "backfilled"]
    /\ UNCHANGED <<now, ticks, program, engineCache, cache, executionHistory,
                   resourceUsage, config, stats, postgres, rateLimitStore, calls, last,
                   text, outcome, indexer, errorLog>>

NextBackfill ==
    \/ \E fromBlock \in DOMAIN Chain, toBlock \in DOMAIN Chain, configured \in {0 - 1, 0, 1, 2},
          fault \in {f \in Faults : f.step \in {"none", "getBlockWithTxs"}} :
          ledger.ops < MaxLedgerOps /\ backfillBegins(fromBlock, toBlock, configured, fault)
    \/ backfillBatch

\* the loop goes on after each await of backfillBlocks: indexBlock and the delay settle
SpecBackfill == InitLedger /\ [][NextBackfill]_vars /\ WF_vars(backfillBatch)

\* C40: a backfill that has begun ends, and when it has ended it has attempted indexBlock
\* for the blocks fromBlock, fromBlock + 1, ..., toBlock in this order, once each, and for
\* no other block
C40_BackfillTerminates ==
    /\ (ledger.last.op = "backfill") ~> (ledger.last.op = "backfilled")
    /\ [](ledger.last.op = "backfilled"
             => ledger.last.attempted =
                   [k \in 1..(ledger.last.to - ledger.last.from + 1) |->
                       ledger.last.from + k - 1])

====
